---- MODULE Spec2Model ----
(***************************************************************************)
(* A model of the iplib package: the net.IP helper functions of iplib.go,  *)
(* the Net4 netblock of net4.go, the Net6 constructor of net6.go and the   *)
(* constructors and NewNetBetween of net.go.                               *)
(*                                                                         *)
(* A net.IP / net.IPMask / []byte is a sequence of bytes (0..255); the nil *)
(* slice is NilIP.  A uint32 is a pair of 16-bit limbs (the checker's      *)
(* integers are 32-bit signed, a uint32 does not fit in one).  A *big.Int  *)
(* is a sign and a magnitude in base 256 without leading zeros.            *)
(***************************************************************************)
EXTENDS Integers, Sequences, FiniteSets, TLC

VARIABLES fn, x, y, cnt, big, m, xs, out, ret, outs, exact, err, cur, nets, depth

vars == <<fn, x, y, cnt, big, m, xs, out, ret, outs, exact, err, cur, nets, depth>>

\* ------------------------------------------------------------------------
\* Bounds of the model
\* ------------------------------------------------------------------------

\* the sampled byte values are 0..Span and 255-Span..255
Span == 2

\* Subnet is called only when it yields at most 2^MaxSubnetBits children
MaxSubnetBits == 2

\* the lists handed to sort.Sort have ListLen elements
ListLen == 3

\* a netblock is derived from a constructed one by at most MaxChain - 1
\* successive Subnet / Supernet / NextNet / PreviousNet calls
MaxChain == 2

\* Enumerate is called on blocks of at most MaxHostBits host bits
MaxHostBits == 6

\* ------------------------------------------------------------------------
\* Bytes and byte slices
\* ------------------------------------------------------------------------

NilIP == <<-1>>

IsNil(s) == s = NilIP

LenB(s) == IF IsNil(s) THEN 0 ELSE Len(s)

Bytes(s) == IF IsNil(s) THEN <<>> ELSE s

RECURSIVE Pow2(_)
Pow2(k) == IF k = 0 THEN 1 ELSE 2 * Pow2(k - 1)

RECURSIVE BitAnd(_, _, _)
BitAnd(p, q, k) ==
  IF k = 0 THEN 0
  ELSE (p % 2) * (q % 2) + 2 * BitAnd(p \div 2, q \div 2, k - 1)

And8(p, q) == BitAnd(p, q, 8)

\* a []byte of k elements, element i being f[i]: the value is built as a
\* tuple, element by element
RECURSIVE ByteSeq(_, _)
ByteSeq(f, k) == IF k <= 0 THEN <<>> ELSE Append(ByteSeq(f, k - 1), f[k])

Zeros(k) == ByteSeq([i \in 1..k |-> 0], k)

\* net.allFF
AllFF(s) == \A i \in 1..Len(s) : s[i] = 255

Fill(k, v) == ByteSeq([i \in 1..k |-> v], k)

\* copy(make([]byte, k), src): the first min(k, len(src)) bytes of src, then zeros
MakeCopy(k, src) ==
  ByteSeq([i \in 1..k |-> IF i <= LenB(src) THEN Bytes(src)[i] ELSE 0], k)

\* bytes.Compare: lexicographic, a proper prefix sorts first, nil equals empty
RECURSIVE BytesCompareFrom(_, _, _)
BytesCompareFrom(s, t, i) ==
  IF i > Len(s) /\ i > Len(t) THEN 0
  ELSE IF i > Len(s) THEN -1
  ELSE IF i > Len(t) THEN 1
  ELSE IF s[i] < t[i] THEN -1
  ELSE IF s[i] > t[i] THEN 1
  ELSE BytesCompareFrom(s, t, i + 1)

BytesCompare(s, t) == BytesCompareFrom(Bytes(s), Bytes(t), 1)

v4InV6Prefix == <<0, 0, 0, 0, 0, 0, 0, 0, 0, 0, 255, 255>>

\* net.IP.To4
To4(ip) ==
  IF LenB(ip) = 4 THEN ip
  ELSE IF LenB(ip) = 16 /\ SubSeq(ip, 1, 12) = v4InV6Prefix THEN SubSeq(ip, 13, 16)
  ELSE NilIP

\* To16 with twelve zero bytes in front of a 4-byte address
To16ZeroPrefix(ip) ==
  IF LenB(ip) = 4 THEN Zeros(12) \o ip
  ELSE IF LenB(ip) = 16 THEN ip
  ELSE NilIP

\* net.IP.To16
To16(ip) ==
  IF LenB(ip) = 4 THEN v4InV6Prefix \o ip
  ELSE IF LenB(ip) = 16 THEN ip
  ELSE NilIP

\* ------------------------------------------------------------------------
\* iplib.go: versions and limits
\* ------------------------------------------------------------------------

is6to4(ip) ==
  /\ ip[1] = 0 /\ ip[2] = 0 /\ ip[3] = 0 /\ ip[4] = 0
  /\ ip[5] = 0 /\ ip[6] = 0 /\ ip[7] = 0 /\ ip[8] = 0
  /\ ip[9] = 0 /\ ip[10] = 0 /\ ip[11] = 255 /\ ip[12] = 255

Version(ip) ==
  IF IsNil(ip) THEN 0
  ELSE IF Len(ip) = 4 THEN 4
  ELSE 6

EffectiveVersion(ip) ==
  IF IsNil(ip) THEN 0
  ELSE IF Len(ip) = 4 THEN 4
  ELSE IF is6to4(ip) THEN 4
  ELSE 6

ForceIP4(ip) == IF LenB(ip) = 16 THEN SubSeq(ip, 13, 16) ELSE ip

generateNetLimits(version, filler) ==
  Fill(IF version = 6 THEN 16 ELSE version, filler)

\* ------------------------------------------------------------------------
\* iplib.go: NextIP and PreviousIP
\* ------------------------------------------------------------------------

\* the carry loop of NextIP: <<TRUE, ipn>> when it returned ipn from inside
\* the loop, <<FALSE, _>> when every byte wrapped to 0
RECURSIVE NextIPLoop(_, _)
NextIPLoop(ipn, i) ==
  IF i < 1 THEN <<FALSE, ipn>>
  ELSE LET v == (ipn[i] + 1) % 256
           ipn2 == [ipn EXCEPT ![i] = v]
       IN  IF v > 0 THEN <<TRUE, ipn2>> ELSE NextIPLoop(ipn2, i - 1)

\* NextIP without the saturation: the wrapped buffer is returned
NextIPWraps(ip) ==
  LET ipn == IF Version(ip) = 4 THEN MakeCopy(4, ip) ELSE MakeCopy(16, ip)
  IN  NextIPLoop(ipn, Len(ipn))[2]

NextIP(ip) ==
  LET ipn == IF Version(ip) = 4 THEN MakeCopy(4, ip) ELSE MakeCopy(16, ip)
      r == NextIPLoop(ipn, Len(ipn))
  IN  IF r[1] THEN r[2] ELSE ip

\* the borrow loop of PreviousIP
RECURSIVE PreviousIPLoop(_, _)
PreviousIPLoop(ipn, i) ==
  IF i < 1 THEN <<FALSE, ipn>>
  ELSE LET v == (ipn[i] + 255) % 256
           ipn2 == [ipn EXCEPT ![i] = v]
       IN  IF v # 255 THEN <<TRUE, ipn2>> ELSE PreviousIPLoop(ipn2, i - 1)

PreviousIP(ip) ==
  LET ipn == IF Version(ip) = 4 THEN MakeCopy(4, To4(ip)) ELSE MakeCopy(16, ip)
      r == PreviousIPLoop(ipn, Len(ipn))
  IN  IF r[1] THEN r[2] ELSE ip

\* ------------------------------------------------------------------------
\* uint32 arithmetic (two 16-bit limbs <<hi, lo>>, wrapping modulo 2^32)
\* ------------------------------------------------------------------------

U32Add(p, q) ==
  LET lo == p[2] + q[2]
      hi == p[1] + q[1] + (lo \div 65536)
  IN  <<hi % 65536, lo % 65536>>

U32Sub(p, q) ==
  LET lo == p[2] - q[2]
      hi == p[1] - q[1] - (IF lo < 0 THEN 1 ELSE 0)
  IN  <<(hi + 65536) % 65536, (lo + 65536) % 65536>>

U32Less(p, q) == p[1] < q[1] \/ (p[1] = q[1] /\ p[2] < q[2])

\* binary.BigEndian.Uint32 of the forced 4-byte form
IP4ToUint32(ip) ==
  IF EffectiveVersion(ip) # 4 THEN <<0, 0>>
  ELSE LET f == ForceIP4(ip) IN <<f[1] * 256 + f[2], f[3] * 256 + f[4]>>

\* binary.BigEndian.PutUint32
Uint32ToIP4(i) == <<i[1] \div 256, i[1] % 256, i[2] \div 256, i[2] % 256>>

\* ------------------------------------------------------------------------
\* math/big integers: [neg, abs], abs in base 256 without leading zeros
\* ------------------------------------------------------------------------

RECURSIVE Strip(_)
Strip(s) == IF s # <<>> /\ s[1] = 0 THEN Strip(Tail(s)) ELSE s

PadTo(s, k) == Zeros(k - Len(s)) \o s

Max(p, q) == IF p >= q THEN p ELSE q

RECURSIVE AddFrom(_, _, _, _)
AddFrom(s, t, i, c) ==
  IF i = 0 THEN (IF c = 0 THEN <<>> ELSE <<c>>)
  ELSE LET d == s[i] + t[i] + c
       IN  Append(AddFrom(s, t, i - 1, d \div 256), d % 256)

MagAdd(s, t) ==
  LET k == Max(Len(s), Len(t))
  IN  Strip(AddFrom(PadTo(s, k), PadTo(t, k), k, 0))

\* s - t for magnitudes with s >= t
RECURSIVE SubFrom(_, _, _, _)
SubFrom(s, t, i, c) ==
  IF i = 0 THEN <<>>
  ELSE LET d == s[i] - t[i] - c
       IN  Append(SubFrom(s, t, i - 1, IF d < 0 THEN 1 ELSE 0), (d + 256) % 256)

MagSub(s, t) ==
  LET k == Max(Len(s), Len(t))
  IN  Strip(SubFrom(PadTo(s, k), PadTo(t, k), k, 0))

MagCmp(s, t) ==
  IF Len(s) < Len(t) THEN -1
  ELSE IF Len(s) > Len(t) THEN 1
  ELSE BytesCompareFrom(s, t, 1)

BigNorm(n, a) == [neg |-> n /\ a # <<>>, abs |-> a]

BigAdd(p, q) ==
  IF p.neg = q.neg THEN BigNorm(p.neg, MagAdd(p.abs, q.abs))
  ELSE IF MagCmp(p.abs, q.abs) >= 0 THEN BigNorm(p.neg, MagSub(p.abs, q.abs))
  ELSE BigNorm(q.neg, MagSub(q.abs, p.abs))

BigSub(p, q) == BigAdd(p, BigNorm(~q.neg, q.abs))

BigSign(z) == IF z.abs = <<>> THEN 0 ELSE IF z.neg THEN -1 ELSE 1

\* big.NewInt(int64(count)) for a uint32 count
BigFromU32(c) == BigNorm(FALSE, Strip(Uint32ToIP4(c)))

IPToBigint(ip) == BigNorm(FALSE, Strip(Bytes(ip)))

BigintToIP6(z) ==
  LET b == z.abs
  IN  IF Len(b) > 16 THEN generateNetLimits(6, 255)
      ELSE IF BigSign(z) <= 0 THEN generateNetLimits(6, 0)
      ELSE IF Len(b) < 16 THEN Zeros(16 - Len(b)) \o b
      ELSE b

\* ------------------------------------------------------------------------
\* iplib.go: increment and decrement by a count
\* ------------------------------------------------------------------------

\* IncrementIP4By without the overflow check
IncrementIP4ByUnchecked(ip, count) == Uint32ToIP4(U32Add(IP4ToUint32(ip), count))

IncrementIP4By(ip, count) ==
  LET i == IP4ToUint32(ip)
      d == U32Add(i, count)
  IN  IF U32Less(d, i) THEN generateNetLimits(4, 255) ELSE Uint32ToIP4(d)

DecrementIP4By(ip, count) ==
  LET i == IP4ToUint32(ip)
      d == U32Sub(i, count)
  IN  IF U32Less(i, d) THEN generateNetLimits(4, 0) ELSE Uint32ToIP4(d)

IncrementIP6By(ip, count) == BigintToIP6(BigAdd(IPToBigint(ip), count))

DecrementIP6By(ip, count) == BigintToIP6(BigSub(IPToBigint(ip), count))

IncrementIPBy(ip, count) ==
  IF Version(ip) = 4 THEN IncrementIP4By(ip, count)
  ELSE IncrementIP6By(ip, BigFromU32(count))

DecrementIPBy(ip, count) ==
  IF EffectiveVersion(ip) = 4 THEN DecrementIP4By(ip, count)
  ELSE DecrementIP6By(ip, BigFromU32(count))

\* ------------------------------------------------------------------------
\* iplib.go: comparison and sorting
\* ------------------------------------------------------------------------

\* CompareIPs with its operands exchanged
CompareIPsSwapped(p, q) == BytesCompare(To16(q), To16(p))

CompareIPs(p, q) == BytesCompare(To16(p), To16(q))

\* ByIP.Less on the elements at two positions of the list
Less(bi, i, j) == CompareIPs(bi[i], bi[j]) = -1

\* ByIP.Swap
Swap(bi, i, j) == [bi EXCEPT ![i] = bi[j], ![j] = bi[i]]

\* sort.Sort on a short list is an insertion sort driven by Less and Swap
RECURSIVE SortInner(_, _)
SortInner(bi, j) ==
  IF j > 1 /\ Less(bi, j, j - 1) THEN SortInner(Swap(bi, j, j - 1), j - 1) ELSE bi

RECURSIVE SortOuter(_, _)
SortOuter(bi, i) ==
  IF i > Len(bi) THEN bi ELSE SortOuter(SortInner(bi, i), i + 1)

SortByIP(bi) == SortOuter(bi, 2)

\* ------------------------------------------------------------------------
\* package net: masks
\* ------------------------------------------------------------------------

\* net.CIDRMask
CIDRMask(ones, bits) ==
  IF bits # 32 /\ bits # 128 THEN NilIP
  ELSE IF ones < 0 \/ ones > bits THEN NilIP
  ELSE ByteSeq([i \in 1..(bits \div 8) |->
                  IF ones >= 8 * i THEN 255
                  ELSE IF ones <= 8 * (i - 1) THEN 0
                  ELSE 256 - Pow2(8 * i - ones)],
               bits \div 8)

\* the number of leading one bits of a byte
RECURSIVE LeadingOnes(_, _)
LeadingOnes(v, k) ==
  IF k = 0 \/ v < 128 THEN 0 ELSE 1 + LeadingOnes((2 * v) % 256, k - 1)

\* net.simpleMaskLength: -1 when the mask is not a run of ones then zeros
RECURSIVE simpleMaskLength(_, _)
simpleMaskLength(mask, i) ==
  IF i > Len(mask) THEN 0
  ELSE IF mask[i] = 255
    THEN LET r == simpleMaskLength(mask, i + 1) IN IF r = -1 THEN -1 ELSE 8 + r
  ELSE LET k == LeadingOnes(mask[i], 8)
       IN  IF mask[i] # (256 - Pow2(8 - k)) % 256 THEN -1
           ELSE IF \E j \in (i + 1)..Len(mask) : mask[j] # 0 THEN -1
           ELSE k

\* net.IPMask.Size: <<ones, bits>>
MaskSize(mask) ==
  LET ones == simpleMaskLength(Bytes(mask), 1)
  IN  IF ones = -1 THEN <<0, 0>> ELSE <<ones, LenB(mask) * 8>>

\* net.IP.Mask
IP_Mask(ip, mask) ==
  LET mk == IF LenB(mask) = 16 /\ LenB(ip) = 4 /\ AllFF(SubSeq(mask, 1, 12))
            THEN SubSeq(mask, 13, 16) ELSE mask
      p  == IF LenB(mk) = 4 /\ LenB(ip) = 16 /\ SubSeq(ip, 1, 12) = v4InV6Prefix
            THEN SubSeq(ip, 13, 16) ELSE ip
  IN  IF LenB(p) # LenB(mk) THEN NilIP
      ELSE ByteSeq([i \in 1..LenB(p) |-> And8(p[i], mk[i])], LenB(p))

\* ------------------------------------------------------------------------
\* net4.go: Net4.  A Net4 or Net6 value is a record of its embedded
\* net.IPNet (IP, Mask) and its own fields; netbytes is 0 in a Net4.
\* ------------------------------------------------------------------------

MkNet(ip, mask, v, l, nb) ==
  [IP |-> ip, Mask |-> mask, version |-> v, length |-> l, netbytes |-> nb]

NoNet == MkNet(NilIP, NilIP, 0, 0, 0)

NewNet4(ip, masklen) ==
  LET version == EffectiveVersion(ip)
  IN  IF version # 4 THEN [net |-> NoNet, err |-> "ErrUnsupportedIPVer"]
      ELSE LET mask == CIDRMask(masklen, 32)
           IN  [net |-> MkNet(IP_Mask(ip, mask), mask, version, 4, 0), err |-> "nil"]

Net4_Mask(n) == n.Mask

Net4_IP(n) == n.IP

Net4_NetworkAddress(n) == n.IP

Net4_Wildcard(n) ==
  ByteSeq([pos \in 1..LenB(Net4_Mask(n)) |-> 255 - Net4_Mask(n)[pos]], LenB(Net4_Mask(n)))

\* the indexing wc[pos] in finalAddress is out of range: a run-time panic
finalAddressPanics(n) == LenB(Net4_IP(n)) > Len(Net4_Wildcard(n))

\* Net4.finalAddress: <<address, ones>>; the byte addition wraps modulo 256
finalAddress(n) ==
  LET wc == Net4_Wildcard(n)
      ip == Bytes(Net4_IP(n))
  IN  <<ByteSeq([pos \in 1..Len(ip) |-> (ip[pos] + wc[pos]) % 256], Len(ip)),
        MaskSize(Net4_Mask(n))[1]>>

Net4_BroadcastAddress(n) == finalAddress(n)[1]

\* FirstAddress without the test for a /31 and a /32
Net4_FirstAddressAlwaysNext(n) == NextIP(Net4_IP(n))

Net4_FirstAddress(n) ==
  LET sz == MaskSize(Net4_Mask(n))
  IN  IF sz[1] + 2 > sz[2] THEN n.IP ELSE NextIP(Net4_IP(n))

Net4_LastAddress(n) ==
  LET fa == finalAddress(n)
  IN  IF fa[2] >= 31 THEN fa[1] ELSE PreviousIP(fa[1])

Net4_NextNet(n, masklen) == NewNet4(NextIP(Net4_BroadcastAddress(n)), masklen)

Net4_PreviousNet(n, masklen) == NewNet4(PreviousIP(Net4_IP(n)), masklen)

\* the loop of Subnet left after its first test: only the first block
SubnetLoopFirstOnly(netlist, n, mask) == [nets |-> netlist, err |-> "nil"]

\* the loop of Net4.Subnet: [nets, err], err = "panic" when BroadcastAddress
\* of the last block indexes its wildcard out of range
RECURSIVE SubnetLoop(_, _, _)
SubnetLoop(netlist, n, mask) ==
  LET last == netlist[Len(netlist)]
  IN  IF finalAddressPanics(last) \/ finalAddressPanics(n)
        THEN [nets |-> <<>>, err |-> "panic"]
      ELSE IF CompareIPs(Net4_BroadcastAddress(last), Net4_BroadcastAddress(n)) = -1
        THEN SubnetLoop(
               Append(netlist,
                      MkNet(NextIP(Net4_BroadcastAddress(last)), mask, n.version, n.length, 0)),
               n, mask)
      ELSE [nets |-> netlist, err |-> "nil"]

Net4_Subnet(n, masklen) ==
  LET sz == MaskSize(Net4_Mask(n))
      ml == IF masklen = 0 THEN sz[1] + 1 ELSE masklen
      mask == CIDRMask(ml, sz[2])
  IN  IF sz[1] > masklen THEN [nets |-> <<>>, err |-> "ErrBadMaskLength"]
      ELSE SubnetLoop(<<MkNet(Net4_IP(n), mask, n.version, n.length, 0)>>, n, mask)

\* Supernet with the base address left unmasked
Net4_SupernetUnmasked(n, masklen) ==
  LET sz == MaskSize(Net4_Mask(n))
      ml == IF masklen = 0 THEN sz[1] - 1 ELSE masklen
  IN  IF sz[1] < masklen THEN [net |-> NoNet, err |-> "ErrBadMaskLength"]
      ELSE [net |-> MkNet(Net4_IP(n), CIDRMask(ml, sz[2]), n.version, n.length, 0),
            err |-> "nil"]

Net4_Supernet(n, masklen) ==
  LET sz == MaskSize(Net4_Mask(n))
      ml == IF masklen = 0 THEN sz[1] - 1 ELSE masklen
      mask == CIDRMask(ml, sz[2])
  IN  IF sz[1] < masklen THEN [net |-> NoNet, err |-> "ErrBadMaskLength"]
      ELSE [net |-> MkNet(IP_Mask(Net4_IP(n), mask), mask, n.version, n.length, 0),
            err |-> "nil"]

\* net.IP.Equal: a 4-byte address equals its IPv4-mapped 16-byte form
IP_Equal(ip, p) ==
  IF LenB(ip) = LenB(p) THEN Bytes(ip) = Bytes(p)
  ELSE IF LenB(ip) = 4 /\ LenB(p) = 16
    THEN SubSeq(p, 1, 12) = v4InV6Prefix /\ ip = SubSeq(p, 13, 16)
  ELSE IF LenB(ip) = 16 /\ LenB(p) = 4
    THEN SubSeq(ip, 1, 12) = v4InV6Prefix /\ SubSeq(ip, 13, 16) = p
  ELSE FALSE

\* net.networkNumberAndMask: <<ip, mask>>, <<NilIP, NilIP>> for an IPNet
\* whose fields do not fit together
networkNumberAndMask(n) ==
  LET ip == IF To4(n.IP) # NilIP THEN To4(n.IP) ELSE n.IP
  IN  IF To4(n.IP) = NilIP /\ LenB(ip) # 16 THEN <<NilIP, NilIP>>
      ELSE IF LenB(n.Mask) = 4
        THEN IF LenB(ip) # 4 THEN <<NilIP, NilIP>> ELSE <<ip, n.Mask>>
      ELSE IF LenB(n.Mask) = 16
        THEN IF LenB(ip) = 4 THEN <<ip, SubSeq(n.Mask, 13, 16)>> ELSE <<ip, n.Mask>>
      ELSE <<NilIP, NilIP>>

\* net.IPNet.Contains
IPNet_Contains(n, ip) ==
  LET nm == networkNumberAndMask(n)
      q  == IF To4(ip) # NilIP THEN To4(ip) ELSE ip
  IN  /\ LenB(q) = LenB(nm[1])
      /\ \A i \in 1..LenB(q) : And8(nm[1][i], nm[2][i]) = And8(q[i], nm[2][i])

Net4_Contains(n, ip) == IPNet_Contains(n, ip)

\* the outcomes of uint32(f) for a float64 f = 2^32, which a uint32 cannot
\* hold: the language leaves the result to the implementation.  A build
\* that converts through a 64-bit integer keeps the low 32 bits (0), a build
\* with a saturating conversion instruction yields 2^32 - 1.
FloatToUint32OutOfRange == {<<0, 0>>, <<65535, 65535>>}

\* uint32(math.Pow(2, float64(exp))) for 0 <= exp <= 32; conv is the value
\* the build yields for the out-of-range conversion
PowUint32(exp, conv) ==
  IF exp >= 32 THEN conv
  ELSE IF exp >= 16 THEN <<Pow2(exp - 16), 0>>
  ELSE <<0, Pow2(exp)>>

Net4_Count(n, conv) ==
  LET sz == MaskSize(Net4_Mask(n))
      exp == sz[2] - sz[1]
  IN  IF exp = 1 THEN <<0, 0>>
      ELSE IF exp = 0 THEN <<0, 1>>
      ELSE U32Sub(PowUint32(exp, conv), <<0, 2>>)

\* the loop of Enumerate ending one element early
RECURSIVE EnumerateLoopShort(_, _)
EnumerateLoopShort(addrList, size) ==
  IF Len(addrList) > size - 2 THEN addrList
  ELSE EnumerateLoopShort(Append(addrList, NextIP(addrList[Len(addrList)])), size)

\* the loop of Net4.Enumerate: addrList[i] = NextIP(addrList[i-1])
RECURSIVE EnumerateLoop(_, _)
EnumerateLoop(addrList, size) ==
  IF Len(addrList) > size - 1 THEN addrList
  ELSE EnumerateLoop(Append(addrList, NextIP(addrList[Len(addrList)])), size)

\* Net4.Enumerate for size >= 0 and offset >= 0: [list, err], err = "panic"
\* when addrList[0] is assigned in a list made with no element or when
\* BroadcastAddress indexes the wildcard out of range
Net4_Enumerate(n, size, offset, conv) ==
  LET c == Net4_Count(n, conv)
      count == c[1] * 65536 + c[2]
      sz == IF size > count - offset \/ size = 0 THEN count - offset ELSE size
  IN  IF offset > count THEN [list |-> <<>>, err |-> "nil"]
      ELSE IF count = 1 THEN [list |-> <<n.IP>>, err |-> "nil"]
      ELSE IF count = 0
        THEN IF finalAddressPanics(n) THEN [list |-> <<>>, err |-> "panic"]
             ELSE [list |-> SubSeq(<<Net4_IP(n), Net4_BroadcastAddress(n)>>, offset + 1, 2),
                   err |-> "nil"]
      ELSE IF sz = 0 THEN [list |-> <<>>, err |-> "panic"]
      ELSE LET netu == U32Add(IP4ToUint32(Net4_FirstAddress(n)), <<0, offset>>)
           IN  [list |-> EnumerateLoop(<<Uint32ToIP4(netu)>>, sz), err |-> "nil"]

\* Net4.NextIP without the test for the broadcast address
Net4_NextIPNoBroadcast(n, ip) ==
  IF ~Net4_Contains(n, ip) THEN [ip |-> <<>>, err |-> "ErrAddressOutOfRange"]
  ELSE IF ~Net4_Contains(n, NextIP(ip)) THEN [ip |-> <<>>, err |-> "ErrAddressAtEndOfRange"]
  ELSE [ip |-> NextIP(ip), err |-> "nil"]

\* Net4.NextIP: [ip, err]; net.IP{} is the empty sequence
Net4_NextIP(n, ip) ==
  IF ~Net4_Contains(n, ip) THEN [ip |-> <<>>, err |-> "ErrAddressOutOfRange"]
  ELSE LET xip == NextIP(ip)
       IN  IF ~Net4_Contains(n, xip) THEN [ip |-> <<>>, err |-> "ErrAddressAtEndOfRange"]
           ELSE IF finalAddressPanics(n) THEN [ip |-> <<>>, err |-> "panic"]
           ELSE IF IP_Equal(Net4_BroadcastAddress(n), xip) /\ n.version = 4
             THEN [ip |-> xip, err |-> "ErrBroadcastAddress"]
           ELSE [ip |-> xip, err |-> "nil"]

\* Net4.PreviousIP: [ip, err]
Net4_PreviousIP(n, ip) ==
  IF ~Net4_Contains(n, ip) THEN [ip |-> <<>>, err |-> "ErrAddressOutOfRange"]
  ELSE LET xip == PreviousIP(ip)
       IN  IF ~Net4_Contains(n, xip) THEN [ip |-> <<>>, err |-> "ErrAddressAtEndOfRange"]
           ELSE IF IP_Equal(Net4_IP(n), xip) /\ n.version = 4
             THEN [ip |-> xip, err |-> "ErrNetworkAddress"]
           ELSE [ip |-> xip, err |-> "nil"]

\* ------------------------------------------------------------------------
\* net6.go: Net6
\* ------------------------------------------------------------------------

\* the result of a call that never returns: the method calls itself without
\* end and the goroutine stack is exhausted
Diverges == <<-2>>

NewNet6(ip, masklen) ==
  LET version == EffectiveVersion(ip)
  IN  IF version # 6 THEN [net |-> NoNet, err |-> "ErrUnsupportedIPVer"]
      ELSE IF masklen > 128 THEN [net |-> NoNet, err |-> "ErrBadMaskLength"]
      ELSE LET mask == CIDRMask(masklen, 128)
           IN  [net |-> MkNet(IP_Mask(ip, mask), mask, version, 16, 8), err |-> "nil"]

\* func (n Net6) Mask() net.IPMask { return n.Mask() }
Net6_Mask(n) == Diverges

\* func (n Net6) IP() net.IP { return n.IP() }
Net6_IP(n) == Diverges

Net6_Wildcard(n) ==
  IF Net6_Mask(n) = Diverges THEN Diverges
  ELSE ByteSeq([pos \in 1..LenB(Net6_Mask(n)) |-> 255 - Net6_Mask(n)[pos]], LenB(Net6_Mask(n)))

Net6_FirstAddress(n) ==
  IF n.version = 6 THEN Net6_IP(n)
  ELSE IF Net6_Mask(n) = Diverges THEN Diverges
  ELSE LET sz == MaskSize(Net6_Mask(n))
       IN  IF sz[1] + 2 > sz[2] THEN Net6_IP(n) ELSE NextIP(Net6_IP(n))

Net6_LastAddress(n) ==
  IF Net6_IP(n) = Diverges \/ Net6_Wildcard(n) = Diverges THEN Diverges
  ELSE ByteSeq([pos \in 1..LenB(Net6_IP(n)) |->
                  (Net6_IP(n)[pos] + Net6_Wildcard(n)[pos]) % 256],
               LenB(Net6_IP(n)))

Net6_Contains(n, ip) == IPNet_Contains(n, ip)

\* Net6.Count: a *big.Int, or Diverges when Mask() does not return
Net6_Count(n) ==
  IF Net6_Mask(n) = Diverges THEN Diverges
  ELSE LET sz == MaskSize(Net6_Mask(n))
           exp == sz[2] - sz[1]
       IN  IF exp = 1 THEN BigNorm(FALSE, <<>>)
           ELSE IF exp = 0 THEN BigNorm(FALSE, <<1>>)
           ELSE BigNorm(FALSE, <<Pow2(exp % 8)>> \o Zeros(exp \div 8))

\* big.Int.IsInt64: the value lies in -2^63 .. 2^63 - 1
IsInt64(z) ==
  \/ Len(z.abs) < 8
  \/ Len(z.abs) = 8 /\ z.abs[1] < 128
  \/ z.neg /\ z.abs = <<128>> \o Zeros(7)

\* big.Int.Uint64: the low 64 bits of the magnitude, as a magnitude
Uint64(z) ==
  IF Len(z.abs) <= 8 THEN z.abs ELSE Strip(SubSeq(z.abs, Len(z.abs) - 7, Len(z.abs)))

\* MaxUint = 1<<64 - 1
MaxUint == Fill(8, 255)

\* the loop of Net6.Enumerate; size is a magnitude
RECURSIVE Enumerate6Loop(_, _)
Enumerate6Loop(addrList, size) ==
  IF MagCmp(Strip(<<Len(addrList) \div 256, Len(addrList) % 256>>), size) >= 0 THEN addrList
  ELSE Enumerate6Loop(Append(addrList, NextIP(addrList[Len(addrList)])), size)

\* Net6.Enumerate, size and offset being magnitudes of uint64 values:
\* [list, err]; err = "stack overflow" when Count() does not return, "panic"
\* when addrList[0] is assigned in an empty list, "too long" for a list of
\* 2^16 addresses or more, which is not built here
Net6_Enumerate(n, size, offset) ==
  IF Net6_Mask(n) = Diverges THEN [list |-> <<>>, err |-> "stack overflow"]
  ELSE LET count == IF IsInt64(Net6_Count(n)) THEN Uint64(Net6_Count(n)) ELSE Strip(MaxUint)
           sz == IF MagCmp(offset, count) <= 0
                      /\ (MagCmp(size, MagSub(count, offset)) > 0 \/ size = <<>>)
                   THEN MagSub(count, offset) ELSE size
       IN  IF MagCmp(offset, count) > 0 THEN [list |-> <<>>, err |-> "nil"]
           ELSE IF sz = <<>> THEN [list |-> <<>>, err |-> "panic"]
           ELSE IF Len(sz) > 2 THEN [list |-> <<>>, err |-> "too long"]
           ELSE IF Net6_FirstAddress(n) = Diverges
             THEN [list |-> <<>>, err |-> "stack overflow"]
           ELSE [list |-> Enumerate6Loop(
                            <<IncrementIP6By(Net6_FirstAddress(n), BigNorm(FALSE, offset))>>, sz),
                 err |-> "nil"]

\* Net6.nextIPWithNetworkBytes, for an address of at least n.netbytes
\* bytes: only the first n.netbytes bytes are copied into the new slice
nextIPWithNetworkBytes(n, ip) ==
  LET ipn == MakeCopy(16, SubSeq(ip, 1, n.netbytes))
      r == NextIPLoop(ipn, n.netbytes)
  IN  IF r[1] THEN r[2] ELSE ip

\* Net6.previousIPWithNetworkBytes
previousIPWithNetworkBytes(n, ip) ==
  LET ipn == MakeCopy(16, SubSeq(ip, 1, n.netbytes))
      r == PreviousIPLoop(ipn, n.netbytes)
  IN  IF r[1] THEN r[2] ELSE ip

\* Net6.NextIP: [ip, err]
Net6_NextIP(n, ip) ==
  LET xip == nextIPWithNetworkBytes(n, ip)
  IN  IF ~Net6_Contains(n, xip) THEN [ip |-> <<>>, err |-> "ErrAddressOutOfRange"]
      ELSE [ip |-> xip, err |-> "nil"]

\* Net6.PreviousIP: [ip, err]
Net6_PreviousIP(n, ip) ==
  LET xip == previousIPWithNetworkBytes(n, ip)
  IN  IF ~Net6_Contains(n, xip) THEN [ip |-> <<>>, err |-> "ErrAddressAtEndOfRange"]
      ELSE [ip |-> xip, err |-> "nil"]

\* Net6.NextNet: [net, err]
Net6_NextNet(n, masklen) ==
  IF Net6_LastAddress(n) = Diverges THEN [net |-> NoNet, err |-> "stack overflow"]
  ELSE NewNet6(NextIP(Net6_LastAddress(n)), masklen)

\* Net6.PreviousNet: [net, err]
Net6_PreviousNet(n, masklen) ==
  IF Net6_FirstAddress(n) = Diverges THEN [net |-> NoNet, err |-> "stack overflow"]
  ELSE NewNet6(PreviousIP(Net6_FirstAddress(n)), masklen)

\* the loop of Net6.Subnet
RECURSIVE Subnet6Loop(_, _, _)
Subnet6Loop(netlist, n, mask) ==
  LET last == netlist[Len(netlist)]
  IN  IF Net6_LastAddress(last) = Diverges \/ Net6_LastAddress(n) = Diverges
        THEN [nets |-> <<>>, err |-> "stack overflow"]
      ELSE IF CompareIPs(Net6_LastAddress(last), Net6_LastAddress(n)) = -1
        THEN Subnet6Loop(
               Append(netlist,
                      MkNet(NextIP(Net6_LastAddress(last)), mask,
                            n.version, n.length, n.netbytes)),
               n, mask)
      ELSE [nets |-> netlist, err |-> "nil"]

\* Net6.Subnet: [nets, err]
Net6_Subnet(n, masklen) ==
  IF Net6_Mask(n) = Diverges \/ Net6_IP(n) = Diverges
    THEN [nets |-> <<>>, err |-> "stack overflow"]
  ELSE LET sz == MaskSize(Net6_Mask(n))
           ml == IF masklen = 0 THEN sz[1] + 1 ELSE masklen
           mask == CIDRMask(ml, sz[2])
       IN  IF sz[1] > masklen THEN [nets |-> <<>>, err |-> "ErrBadMaskLength"]
           ELSE Subnet6Loop(<<MkNet(Net6_IP(n), mask, n.version, n.length, n.netbytes)>>,
                            n, mask)

\* Net6.Supernet: [net, err]
Net6_Supernet(n, masklen) ==
  IF Net6_Mask(n) = Diverges \/ Net6_IP(n) = Diverges
    THEN [net |-> NoNet, err |-> "stack overflow"]
  ELSE LET sz == MaskSize(Net6_Mask(n))
           ml == IF masklen = 0 THEN sz[1] - 1 ELSE masklen
           mask == CIDRMask(ml, sz[2])
       IN  IF sz[1] < masklen THEN [net |-> NoNet, err |-> "ErrBadMaskLength"]
           ELSE [net |-> MkNet(IP_Mask(Net6_IP(n), mask), mask,
                               n.version, n.length, n.netbytes),
                 err |-> "nil"]

\* ------------------------------------------------------------------------
\* net.go: the Net interface, NewNet, NewNetBetween, ParseCIDR
\* ------------------------------------------------------------------------

\* the dynamic type behind a Net value
IsNet6(n) == n.length = 16

\* the methods Mask and IP of a Net value, dispatched on its dynamic type
Net_Mask(n) == IF IsNet6(n) THEN Net6_Mask(n) ELSE Net4_Mask(n)

Net_IP(n) == IF IsNet6(n) THEN Net6_IP(n) ELSE Net4_IP(n)

\* Net6.ContainsNet: [ret, err]
Net6_ContainsNet(n, network) ==
  IF Net6_Mask(n) = Diverges \/ Net_Mask(network) = Diverges
    THEN [ret |-> FALSE, err |-> "stack overflow"]
  ELSE LET l1 == MaskSize(Net6_Mask(n))[1]
           l2 == MaskSize(Net_Mask(network))[1]
       IN  IF ~(l1 <= l2) THEN [ret |-> FALSE, err |-> "nil"]
           ELSE IF Net_IP(network) = Diverges THEN [ret |-> FALSE, err |-> "stack overflow"]
           ELSE [ret |-> Net6_Contains(n, Net_IP(network)), err |-> "nil"]

\* ContainsNet without the comparison of the prefix lengths
Net4_ContainsNetNoLength(n, network) ==
  IF Net_Mask(network) = Diverges \/ Net_IP(network) = Diverges
    THEN [ret |-> FALSE, err |-> "stack overflow"]
  ELSE [ret |-> Net4_Contains(n, Net_IP(network)), err |-> "nil"]

\* Net4.ContainsNet: [ret, err], err = "stack overflow" when a method of
\* the argument never returns
Net4_ContainsNet(n, network) ==
  IF Net_Mask(network) = Diverges THEN [ret |-> FALSE, err |-> "stack overflow"]
  ELSE LET l1 == MaskSize(Net4_Mask(n))[1]
           l2 == MaskSize(Net_Mask(network))[1]
       IN  IF ~(l1 <= l2) THEN [ret |-> FALSE, err |-> "nil"]
           ELSE IF Net_IP(network) = Diverges THEN [ret |-> FALSE, err |-> "stack overflow"]
           ELSE [ret |-> Net4_Contains(n, Net_IP(network)), err |-> "nil"]

FirstAddress(n) == IF IsNet6(n) THEN Net6_FirstAddress(n) ELSE Net4_FirstAddress(n)

LastAddress(n) == IF IsNet6(n) THEN Net6_LastAddress(n) ELSE Net4_LastAddress(n)

NewNet(ip, masklen) ==
  IF Version(ip) = 6 THEN NewNet6(ip, masklen) ELSE NewNet4(ip, masklen)

Between(n, e, er) == [net |-> n, exact |-> e, err |-> er]

RECURSIVE NewNetBetweenLoop(_, _, _, _)
NewNetBetweenLoop(ipa, ipb, i, maskMax) ==
  IF i > maskMax THEN Between(NoNet, FALSE, "ErrNoValidRange")
  ELSE LET r == NewNet(ipa, i)
           xnet == r.net
       IN  IF r.err # "nil" THEN Between(NoNet, FALSE, r.err)
           ELSE IF FirstAddress(xnet) = Diverges \/ LastAddress(xnet) = Diverges
             THEN Between(NoNet, FALSE, "stack overflow")
           ELSE LET va == CompareIPs(FirstAddress(xnet), ipa)
                    vb == CompareIPs(LastAddress(xnet), ipb)
                IN  IF va >= 0 /\ vb <= 0
                      THEN Between(xnet, va = 0 /\ vb = 0, "nil")
                    ELSE NewNetBetweenLoop(ipa, ipb, i + 1, maskMax)

NewNetBetween(a, b) ==
  IF CompareIPs(a, b) # -1 THEN Between(NoNet, FALSE, "ErrNoValidRange")
  ELSE IF Version(a) # Version(b) THEN Between(NoNet, FALSE, "ErrNoValidRange")
  ELSE NewNetBetweenLoop(NextIP(a), PreviousIP(b), 1,
                         IF EffectiveVersion(a) = 4 THEN 32 ELSE 128)

\* ParseCIDR on a well-formed text: net.ParseCIDR yields the address in its
\* 16-byte form and the prefix length; dotted says that the text contains
\* a '.', which is the case for every IPv4 text and for an IPv6 text that
\* ends in a dotted quad.  The results are the address and the Net.
ParseCIDR(ip, masklen, dotted) ==
  IF dotted
    THEN LET r == NewNet4(ForceIP4(To16(ip)), masklen)
         IN  [ip |-> ForceIP4(To16(ip)), net |-> r.net, err |-> r.err]
  ELSE LET r == NewNet6(To16(ip), masklen)
       IN  [ip |-> To16(ip), net |-> r.net, err |-> r.err]

\* ------------------------------------------------------------------------
\* Inputs
\* ------------------------------------------------------------------------

EdgeBytes == (0..Span) \cup ((255 - Span)..255)

IP4Samples ==
  {<<h1, h2, b3, b4>> : h1 \in {0, 255}, h2 \in {0, 255}, b3 \in EdgeBytes, b4 \in EdgeBytes}

IP6Prefixes ==
  {Zeros(12), v4InV6Prefix, Fill(12, 255), <<32, 1, 13, 184, 0, 0, 0, 0, 0, 0, 0, 0>>}

IP6Samples ==
  {p \o <<t, t, b3, b4>> : p \in IP6Prefixes, t \in {0, 255}, b3 \in {0, 255}, b4 \in EdgeBytes}

IPSamples == IP4Samples \cup IP6Samples

LimbSamples == (0..Span) \cup {255, 256} \cup ((65535 - Span)..65535)

CountSamples == {<<h, l>> : h \in {0, 1, 65535}, l \in LimbSamples}

BigSamples ==
  {BigNorm(FALSE, Strip(<<h>> \o Fill(k, f) \o <<l>>)) :
     h \in {0, 1, 255}, k \in {0, 14, 15, 16}, f \in {0, 255}, l \in {0, 1, 255}}

SortSamples ==
  {a \in IP4Samples : a[1] = a[2] /\ a[3] = a[4]}
    \cup {a \in IP6Samples : a[1] \in {0, 255} /\ a[15] = 255 /\ a[16] \in {0, 255}}

SortLists ==
  {l \in [1..ListLen -> SortSamples] : \A i \in 1..ListLen : Len(l[i]) = Len(l[1])}

\* the addresses netblocks are constructed from
NetIPs ==
  {a \in IP4Samples : a[1] = a[2] /\ a[3] = a[4]}
    \cup {<<192, 168, 1, 61>>, v4InV6Prefix \o <<192, 168, 1, 61>>}

Net6IPs == {a \in IP6Samples : a[13] = 0 /\ a[15] = 255 /\ a[16] = 255}

\* prefix lengths handed to the Net4 constructors, and to NewNet6
NewLens4 == {-1, 0, 1, 8, 23, 24, 26, 30, 31, 32, 33}

NewLens6 == {0, 1, 64, 65, 126, 127, 128, 129, 130}

\* prefix lengths handed to Subnet, Supernet, NextNet and PreviousNet
OpLens == {0, 1, 2, 8, 24, 25, 30, 31, 32}

\* the addresses NewNetBetween is called with: both ends of the IPv4 space,
\* the addresses of net_test.go, two of them in their 16-byte form, and
\* 16-byte IPv6 addresses
BetweenSamples ==
  {a \in IP4Samples : a[1] = a[2] /\ a[3] \in {0, 255}}
    \cup {<<192, 168, 0, 255>>, <<192, 168, 1, 0>>, <<192, 168, 1, 3>>, <<192, 168, 2, 0>>}
    \cup {v4InV6Prefix \o <<192, 168, 0, 255>>, v4InV6Prefix \o <<192, 168, 2, 0>>}
    \cup {a \in IP6Samples : a[1] = 32 /\ a[13] = 0 /\ a[15] = 0}

\* the addresses handed to Net4.NextIP and Net4.PreviousIP: 4-byte addresses
\* around 0.0.0.0, 255.255.255.255 and 192.168.1.61, IPv4-mapped 16-byte
\* forms, and IPv6 addresses
MemberSamples ==
  {a \in IP4Samples : a[1] = a[2]}
    \cup {<<192, 168, 1, b>> : b \in {0, 1, 59, 60, 61, 62, 63, 64}}
    \cup {v4InV6Prefix \o a :
            a \in {<<0, 0, 0, 0>>, <<0, 0, 0, 1>>, <<255, 255, 255, 254>>,
                   <<255, 255, 255, 255>>, <<192, 168, 1, 62>>, <<192, 168, 1, 63>>}}
    \cup {Zeros(16), Fill(16, 255)}

\* the size and offset arguments of Enumerate for a block of count usable
\* addresses: the small values and the values around count
EnumSamples(count) == {k \in (0..3) \cup {count - 1, count, count + 1} : k >= 0}

BigZero == BigNorm(FALSE, <<>>)

\* ------------------------------------------------------------------------
\* The call frame: the function called last, its arguments and its results
\* ------------------------------------------------------------------------

Args(f, a, b, c, z, k, l) ==
  /\ fn' = f
  /\ x' = a
  /\ y' = b
  /\ cnt' = c
  /\ big' = z
  /\ m' = k
  /\ xs' = l

Results(o, r, os, e, er) ==
  /\ out' = o
  /\ ret' = r
  /\ outs' = os
  /\ exact' = e
  /\ err' = er

Init ==
  /\ fn = "init"
  /\ x = NilIP
  /\ y = NilIP
  /\ cnt = <<0, 0>>
  /\ big = BigZero
  /\ m = 0
  /\ xs = <<>>
  /\ out = NilIP
  /\ ret = 0
  /\ outs = <<>>
  /\ exact = FALSE
  /\ err = "nil"
  /\ cur = NoNet
  /\ nets = <<>>
  /\ depth = 0

\* A client makes a call from the idle state; the state after it holds the
\* call's arguments and results, and only a call that consumes those results
\* can follow.
Idle == fn = "init"

\* ------------------------------------------------------------------------
\* Calls of the net.IP helpers
\* ------------------------------------------------------------------------

CallNextIP ==
  /\ Idle
  /\ \E a \in IPSamples :
       /\ Args("NextIP", a, NilIP, <<0, 0>>, BigZero, 0, <<>>)
       /\ Results(NextIP(a), 0, <<>>, FALSE, "nil")
       /\ UNCHANGED <<cur, nets, depth>>

CallPreviousIP ==
  /\ Idle
  /\ \E a \in IPSamples :
       /\ Args("PreviousIP", a, NilIP, <<0, 0>>, BigZero, 0, <<>>)
       /\ Results(PreviousIP(a), 0, <<>>, FALSE, "nil")
       /\ UNCHANGED <<cur, nets, depth>>

CallIncrementIP4By ==
  /\ Idle
  /\ \E a \in IP4Samples, c \in CountSamples :
       /\ Args("IncrementIP4By", a, NilIP, c, BigZero, 0, <<>>)
       /\ Results(IncrementIP4By(a, c), 0, <<>>, FALSE, "nil")
       /\ UNCHANGED <<cur, nets, depth>>

CallDecrementIP4By ==
  /\ Idle
  /\ \E a \in IP4Samples, c \in CountSamples :
       /\ Args("DecrementIP4By", a, NilIP, c, BigZero, 0, <<>>)
       /\ Results(DecrementIP4By(a, c), 0, <<>>, FALSE, "nil")
       /\ UNCHANGED <<cur, nets, depth>>

CallIncrementIP6By ==
  /\ Idle
  /\ \E a \in IP6Samples, z \in BigSamples :
       /\ Args("IncrementIP6By", a, NilIP, <<0, 0>>, z, 0, <<>>)
       /\ Results(IncrementIP6By(a, z), 0, <<>>, FALSE, "nil")
       /\ UNCHANGED <<cur, nets, depth>>

CallDecrementIP6By ==
  /\ Idle
  /\ \E a \in IP6Samples, z \in BigSamples :
       /\ Args("DecrementIP6By", a, NilIP, <<0, 0>>, z, 0, <<>>)
       /\ Results(DecrementIP6By(a, z), 0, <<>>, FALSE, "nil")
       /\ UNCHANGED <<cur, nets, depth>>

CallIncrementIPBy ==
  /\ Idle
  /\ \E a \in IPSamples, c \in CountSamples :
       /\ Args("IncrementIPBy", a, NilIP, c, BigZero, 0, <<>>)
       /\ Results(IncrementIPBy(a, c), 0, <<>>, FALSE, "nil")
       /\ UNCHANGED <<cur, nets, depth>>

\* DecrementIPBy applied to the address IncrementIPBy just returned, with the
\* same count; x keeps the original address, y is the incremented one
CallDecrementIPByOfResult ==
  /\ fn = "IncrementIPBy"
  /\ Args("DecrementIPBy", x, out, cnt, BigZero, 0, <<>>)
  /\ Results(DecrementIPBy(out, cnt), 0, <<>>, FALSE, "nil")
  /\ UNCHANGED <<cur, nets, depth>>

CallCompareIPs ==
  /\ Idle
  /\ \E a \in IPSamples, b \in {s \in IPSamples : s[Len(s) - 1] \in {0, 255}} :
       /\ Args("CompareIPs", a, b, <<0, 0>>, BigZero, 0, <<>>)
       /\ Results(NilIP, CompareIPs(a, b), <<>>, FALSE, "nil")
       /\ UNCHANGED <<cur, nets, depth>>

CallSortByIP ==
  /\ Idle
  /\ \E l \in SortLists :
       /\ Args("SortByIP", NilIP, NilIP, <<0, 0>>, BigZero, 0, l)
       /\ Results(NilIP, 0, SortByIP(l), FALSE, "nil")
       /\ UNCHANGED <<cur, nets, depth>>

Next ==
  \/ CallNextIP
  \/ CallPreviousIP
  \/ CallIncrementIP4By
  \/ CallDecrementIP4By
  \/ CallIncrementIP6By
  \/ CallDecrementIP6By
  \/ CallIncrementIPBy
  \/ CallDecrementIPByOfResult
  \/ CallCompareIPs
  \/ CallSortByIP

Spec == Init /\ [][Next]_vars

\* ------------------------------------------------------------------------
\* Calls of NewNetBetween
\* ------------------------------------------------------------------------

CallNewNetBetween ==
  /\ Idle
  /\ \E a \in BetweenSamples, b \in BetweenSamples :
       LET r == NewNetBetween(a, b)
       IN  /\ Args("NewNetBetween", a, b, <<0, 0>>, BigZero, 0, <<>>)
           /\ Results(NilIP, 0, <<>>, r.exact, r.err)
           /\ cur' = r.net
           /\ nets' = <<>>
           /\ depth' = 1

NextBetween == CallNewNetBetween

SpecBetween == Init /\ [][NextBetween]_vars

\* ------------------------------------------------------------------------
\* Construction of netblocks and derivation of Net4 blocks from a Net4
\* ------------------------------------------------------------------------

CallNewNet4 ==
  /\ Idle
  /\ \E a \in NetIPs \cup Net6IPs, k \in NewLens4 :
       LET r == NewNet4(a, k)
       IN  /\ Args("NewNet4", a, NilIP, <<0, 0>>, BigZero, k, <<>>)
           /\ Results(NilIP, 0, <<>>, FALSE, r.err)
           /\ cur' = r.net
           /\ nets' = <<>>
           /\ depth' = 1

CallNewNet6 ==
  /\ Idle
  /\ \E a \in NetIPs \cup Net6IPs, k \in NewLens6 :
       LET r == NewNet6(a, k)
       IN  /\ Args("NewNet6", a, NilIP, <<0, 0>>, BigZero, k, <<>>)
           /\ Results(NilIP, 0, <<>>, FALSE, r.err)
           /\ cur' = r.net
           /\ nets' = <<>>
           /\ depth' = 1

CallNewNet ==
  /\ Idle
  /\ \E a \in NetIPs \cup Net6IPs, k \in NewLens4 \cup NewLens6 :
       LET r == NewNet(a, k)
       IN  /\ Args("NewNet", a, NilIP, <<0, 0>>, BigZero, k, <<>>)
           /\ Results(NilIP, 0, <<>>, FALSE, r.err)
           /\ cur' = r.net
           /\ nets' = <<>>
           /\ depth' = 1

\* the texts net.ParseCIDR accepts: an IPv4 text with a prefix 0..32, an IPv6
\* text with a prefix 0..128, with or without a trailing dotted quad
CallParseCIDR ==
  /\ Idle
  /\ \E a \in NetIPs \cup Net6IPs, k \in NewLens4 \cup NewLens6, dotted \in BOOLEAN :
       /\ k >= 0
       /\ k <= 8 * Len(a)
       /\ Len(a) = 4 => dotted
       /\ LET r == ParseCIDR(a, k, dotted)
          IN  /\ Args("ParseCIDR", a, NilIP, <<0, 0>>, BigZero, k, <<>>)
              /\ Results(r.ip, 0, <<>>, dotted, r.err)
              /\ cur' = r.net
              /\ nets' = <<>>
              /\ depth' = 1

\* the last call returned (it did not panic) and the client holds a Net4
HaveNet4 == cur # NoNet /\ ~IsNet6(cur) /\ err # "panic"

CanDerive == HaveNet4 /\ depth < MaxChain

\* Subnet, Supernet, NextNet and PreviousNet: x and y hold the base address
\* and the mask of the receiver, m the prefix length asked for
CallSubnet ==
  /\ CanDerive
  /\ \E k \in OpLens :
       /\ k = 0 \/ k - MaskSize(Net4_Mask(cur))[1] <= MaxSubnetBits
       /\ LET r == Net4_Subnet(cur, k)
          IN  /\ Args("Subnet", cur.IP, cur.Mask, <<0, 0>>, BigZero, k, <<>>)
              /\ Results(NilIP, 0, <<>>, FALSE, r.err)
              /\ nets' = r.nets
              /\ IF r.err = "nil" THEN \E i \in 1..Len(r.nets) : cur' = r.nets[i]
                 ELSE cur' = cur
              /\ depth' = depth + 1

CallSupernet ==
  /\ CanDerive
  /\ \E k \in OpLens :
       LET r == Net4_Supernet(cur, k)
       IN  /\ Args("Supernet", cur.IP, cur.Mask, <<0, 0>>, BigZero, k, <<>>)
           /\ Results(NilIP, 0, <<>>, FALSE, r.err)
           /\ nets' = <<>>
           /\ cur' = IF r.err = "nil" THEN r.net ELSE cur
           /\ depth' = depth + 1

\* Supernet called on a block Subnet has just returned, with the prefix
\* length of the block Subnet was called on; x and y keep that block
CallSupernetOfChild ==
  /\ fn = "Subnet"
  /\ err = "nil"
  /\ HaveNet4
  /\ LET p == MaskSize(y)[1]
         r == Net4_Supernet(cur, p)
     IN  /\ Args("SupernetOfChild", x, y, <<0, 0>>, BigZero, p, <<>>)
         /\ Results(NilIP, 0, <<>>, FALSE, r.err)
         /\ nets' = <<>>
         /\ cur' = IF r.err = "nil" THEN r.net ELSE cur
         /\ depth' = depth + 1

CallNextNet ==
  /\ CanDerive
  /\ \E k \in OpLens :
       LET r == Net4_NextNet(cur, k)
       IN  /\ Args("NextNet", cur.IP, cur.Mask, <<0, 0>>, BigZero, k, <<>>)
           /\ Results(NilIP, 0, <<>>, FALSE, r.err)
           /\ nets' = <<>>
           /\ cur' = IF r.err = "nil" THEN r.net ELSE cur
           /\ depth' = depth + 1

CallPreviousNet ==
  /\ CanDerive
  /\ \E k \in OpLens :
       LET r == Net4_PreviousNet(cur, k)
       IN  /\ Args("PreviousNet", cur.IP, cur.Mask, <<0, 0>>, BigZero, k, <<>>)
           /\ Results(NilIP, 0, <<>>, FALSE, r.err)
           /\ nets' = <<>>
           /\ cur' = IF r.err = "nil" THEN r.net ELSE cur
           /\ depth' = depth + 1

NextNet4 ==
  \/ CallNewNet4
  \/ CallNewNet6
  \/ CallNewNet
  \/ CallParseCIDR
  \/ CallSubnet
  \/ CallSupernet
  \/ CallSupernetOfChild
  \/ CallNextNet
  \/ CallPreviousNet

SpecNet4 == Init /\ [][NextNet4]_vars

\* ------------------------------------------------------------------------
\* The methods of a Net4 that do not derive a netblock, called on a Net4
\* just constructed: the receiver stays in cur
\* ------------------------------------------------------------------------

Constructed == HaveNet4 /\ fn \in {"NewNet4", "ParseCIDR"}

\* NextIP returns its argument, not a new slice, when the address is at the
\* end of the range
NextIPReturnsArgument(ip) ==
  ~NextIPLoop(IF Version(ip) = 4 THEN MakeCopy(4, ip) ELSE MakeCopy(16, ip),
              IF Version(ip) = 4 THEN 4 ELSE 16)[1]

\* the slice a method returns is the slice n.IPNet.IP itself, so that it
\* shares the backing array of the base address of the block: IP and
\* NetworkAddress return n.IPNet.IP, FirstAddress returns n.IP() for a /31
\* and a /32, BroadcastAddress and LastAddress return a slice finalAddress
\* makes
SharesBase(f, n) ==
  IF f \in {"IP", "NetworkAddress"} THEN TRUE
  ELSE IF f = "FirstAddress"
    THEN \/ MaskSize(Net4_Mask(n))[1] + 2 > MaskSize(Net4_Mask(n))[2]
         \/ NextIPReturnsArgument(Net4_IP(n))
  ELSE FALSE

\* the first element of the list Enumerate returns is n.IPNet.IP itself:
\* the list of a /32, and the list of a /31 from offset 0
EnumerateSharesBase(n, offset, conv) ==
  LET c == Net4_Count(n, conv)
  IN  \/ c = <<0, 1>> /\ offset <= 1
      \/ c = <<0, 0>> /\ offset = 0

\* the result of a method that calls finalAddress
AddressOrPanic(n, addr) ==
  IF finalAddressPanics(n) THEN Results(NilIP, 0, <<>>, FALSE, "panic")
  ELSE Results(addr, 0, <<>>, SharesBase("BroadcastAddress", n), "nil")

CallNetworkAddress ==
  /\ Constructed
  /\ Args("NetworkAddress", NilIP, NilIP, <<0, 0>>, BigZero, 0, <<>>)
  /\ Results(Net4_NetworkAddress(cur), 0, <<>>, SharesBase("NetworkAddress", cur), "nil")
  /\ UNCHANGED <<cur, nets, depth>>

CallIP ==
  /\ Constructed
  /\ Args("IP", NilIP, NilIP, <<0, 0>>, BigZero, 0, <<>>)
  /\ Results(Net4_IP(cur), 0, <<>>, SharesBase("IP", cur), "nil")
  /\ UNCHANGED <<cur, nets, depth>>

CallBroadcastAddress ==
  /\ Constructed
  /\ Args("BroadcastAddress", NilIP, NilIP, <<0, 0>>, BigZero, 0, <<>>)
  /\ AddressOrPanic(cur, Net4_BroadcastAddress(cur))
  /\ UNCHANGED <<cur, nets, depth>>

CallFirstAddress ==
  /\ Constructed
  /\ Args("FirstAddress", NilIP, NilIP, <<0, 0>>, BigZero, 0, <<>>)
  /\ Results(Net4_FirstAddress(cur), 0, <<>>, SharesBase("FirstAddress", cur), "nil")
  /\ UNCHANGED <<cur, nets, depth>>

CallLastAddress ==
  /\ Constructed
  /\ Args("LastAddress", NilIP, NilIP, <<0, 0>>, BigZero, 0, <<>>)
  /\ AddressOrPanic(cur, Net4_LastAddress(cur))
  /\ UNCHANGED <<cur, nets, depth>>

\* in the state after an accessor, exact says that the address returned (the
\* first address of the list Enumerate returned) shares its backing array
\* with the base address of the block

\* Count: the uint32 returned is held in cnt
CallCount ==
  /\ Constructed
  /\ \E conv \in FloatToUint32OutOfRange :
       /\ Args("Count", NilIP, NilIP, Net4_Count(cur, conv), BigZero, 0, <<>>)
       /\ Results(NilIP, 0, <<>>, FALSE, "nil")
       /\ UNCHANGED <<cur, nets, depth>>

HostBits(n) == MaskSize(Net4_Mask(n))[2] - MaskSize(Net4_Mask(n))[1]

\* Enumerate(size, offset): size is held in m, offset in ret
CallEnumerate ==
  /\ Constructed
  /\ HostBits(cur) <= MaxHostBits
  /\ \E conv \in FloatToUint32OutOfRange :
       \E size \in EnumSamples(Net4_Count(cur, conv)[2]),
          offset \in EnumSamples(Net4_Count(cur, conv)[2]) :
         LET r == Net4_Enumerate(cur, size, offset, conv)
         IN  /\ Args("Enumerate", NilIP, NilIP, <<0, 0>>, BigZero, size, <<>>)
             /\ Results(NilIP, offset, r.list,
                        r.err = "nil" /\ r.list # <<>>
                          /\ EnumerateSharesBase(cur, offset, conv),
                        r.err)
             /\ UNCHANGED <<cur, nets, depth>>

\* the caller overwrites byte i of the address an accessor returned (of the
\* first address of the list Enumerate returned): a store into the backing
\* array of that slice, which is seen through every slice that shares it
CallOverwrite ==
  /\ HaveNet4
  /\ err = "nil"
  /\ \/ fn \in {"IP", "NetworkAddress", "FirstAddress", "LastAddress", "BroadcastAddress"}
          /\ LenB(out) = 4
     \/ fn = "Enumerate" /\ outs # <<>> /\ LenB(outs[1]) = 4
  /\ \E i \in {1, 4}, b \in {0, 255} :
       /\ IF fn = "Enumerate"
            THEN outs' = [outs EXCEPT ![1] = [@ EXCEPT ![i] = b]] /\ out' = out
            ELSE out' = [out EXCEPT ![i] = b] /\ outs' = outs
       /\ cur' = IF exact THEN [cur EXCEPT !.IP = [@ EXCEPT ![i] = b]] ELSE cur
       /\ fn' = "Overwrite"
       /\ UNCHANGED <<x, y, cnt, big, m, xs, ret, exact, err, nets, depth>>

\* ContainsNet(network), network being a Net4 or a Net6 that NewNet
\* constructs: x and y hold the base address and the mask of network, exact
\* the result
CallContainsNet ==
  /\ Constructed
  /\ \E a \in NetIPs \cup Net6IPs, k \in {0, 24, 26, 31, 32, 64} :
       LET b == NewNet(a, k)
           r == Net4_ContainsNet(cur, b.net)
       IN  /\ b.err = "nil"
           /\ Args("ContainsNet", b.net.IP, b.net.Mask, <<0, 0>>, BigZero, 0, <<>>)
           /\ Results(NilIP, 0, <<>>, r.ret, r.err)
           /\ UNCHANGED <<cur, nets, depth>>

CallNet4NextIP ==
  /\ Constructed
  /\ \E a \in MemberSamples :
       LET r == Net4_NextIP(cur, a)
       IN  /\ Args("Net4.NextIP", a, NilIP, <<0, 0>>, BigZero, 0, <<>>)
           /\ Results(r.ip, 0, <<>>, FALSE, r.err)
           /\ UNCHANGED <<cur, nets, depth>>

CallNet4PreviousIP ==
  /\ Constructed
  /\ \E a \in MemberSamples :
       LET r == Net4_PreviousIP(cur, a)
       IN  /\ Args("Net4.PreviousIP", a, NilIP, <<0, 0>>, BigZero, 0, <<>>)
           /\ Results(r.ip, 0, <<>>, FALSE, r.err)
           /\ UNCHANGED <<cur, nets, depth>>

NextNet4Ops ==
  \/ CallNewNet4
  \/ CallParseCIDR
  \/ CallNetworkAddress
  \/ CallIP
  \/ CallBroadcastAddress
  \/ CallFirstAddress
  \/ CallLastAddress
  \/ CallCount
  \/ CallEnumerate
  \/ CallOverwrite
  \/ CallContainsNet
  \/ CallNet4NextIP
  \/ CallNet4PreviousIP

SpecNet4Ops == Init /\ [][NextNet4Ops]_vars

\* ------------------------------------------------------------------------
\* Calls of the Net6 methods on a block NewNet6 has returned
\* ------------------------------------------------------------------------

HaveNet6 == fn = "NewNet6" /\ err = "nil" /\ cur # NoNet /\ IsNet6(cur)

\* the 16-byte addresses handed to Net6.NextIP and Net6.PreviousIP
Step6Samples ==
  IP6Samples \cup {Zeros(7) \o <<1>> \o Zeros(7) \o <<9>>,
                   Zeros(7) \o <<1>> \o Fill(8, 255),
                   Fill(7, 255) \o <<254>> \o Zeros(7) \o <<9>>}

\* the magnitude of a small uint64
Mag(k) == Strip(<<k \div 256, k % 256>>)

\* the result of a method that returns a slice, or never returns
SliceOrOverflow(v) ==
  IF v = Diverges THEN Results(NilIP, 0, <<>>, FALSE, "stack overflow")
  ELSE Results(v, 0, <<>>, FALSE, "nil")

CallNet6Mask ==
  /\ HaveNet6
  /\ Args("Net6.Mask", cur.IP, cur.Mask, <<0, 0>>, BigZero, 0, <<>>)
  /\ SliceOrOverflow(Net6_Mask(cur))
  /\ UNCHANGED <<cur, nets, depth>>

CallNet6IP ==
  /\ HaveNet6
  /\ Args("Net6.IP", cur.IP, cur.Mask, <<0, 0>>, BigZero, 0, <<>>)
  /\ SliceOrOverflow(Net6_IP(cur))
  /\ UNCHANGED <<cur, nets, depth>>

CallNet6FirstAddress ==
  /\ HaveNet6
  /\ Args("Net6.FirstAddress", cur.IP, cur.Mask, <<0, 0>>, BigZero, 0, <<>>)
  /\ SliceOrOverflow(Net6_FirstAddress(cur))
  /\ UNCHANGED <<cur, nets, depth>>

CallNet6LastAddress ==
  /\ HaveNet6
  /\ Args("Net6.LastAddress", cur.IP, cur.Mask, <<0, 0>>, BigZero, 0, <<>>)
  /\ SliceOrOverflow(Net6_LastAddress(cur))
  /\ UNCHANGED <<cur, nets, depth>>

CallNet6Wildcard ==
  /\ HaveNet6
  /\ Args("Net6.Wildcard", cur.IP, cur.Mask, <<0, 0>>, BigZero, 0, <<>>)
  /\ SliceOrOverflow(Net6_Wildcard(cur))
  /\ UNCHANGED <<cur, nets, depth>>

\* the count is left in big
CallNet6Count ==
  /\ HaveNet6
  /\ IF Net6_Mask(cur) = Diverges
       THEN /\ Args("Net6.Count", cur.IP, cur.Mask, <<0, 0>>, BigZero, 0, <<>>)
            /\ Results(NilIP, 0, <<>>, FALSE, "stack overflow")
       ELSE /\ Args("Net6.Count", cur.IP, cur.Mask, <<0, 0>>, Net6_Count(cur), 0, <<>>)
            /\ Results(NilIP, 0, <<>>, FALSE, "nil")
  /\ UNCHANGED <<cur, nets, depth>>

\* the argument block is left in nets, the answer in exact
CallNet6ContainsNet ==
  /\ HaveNet6
  /\ \E a \in NetIPs \cup Net6IPs, k \in {0, 24, 64, 128} :
       LET b == NewNet(a, k)
           r == Net6_ContainsNet(cur, b.net)
       IN  /\ b.err = "nil"
           /\ Args("Net6.ContainsNet", cur.IP, cur.Mask, <<0, 0>>, BigZero, k, <<>>)
           /\ Results(NilIP, 0, <<>>, r.ret, r.err)
           /\ nets' = <<b.net>>
           /\ UNCHANGED <<cur, depth>>

CallNet6Subnet ==
  /\ HaveNet6
  /\ \E k \in {0, 64, 65, 128} :
       LET r == Net6_Subnet(cur, k)
       IN  /\ Args("Net6.Subnet", cur.IP, cur.Mask, <<0, 0>>, BigZero, k, <<>>)
           /\ Results(NilIP, 0, <<>>, FALSE, r.err)
           /\ nets' = r.nets
           /\ UNCHANGED <<cur, depth>>

CallNet6Supernet ==
  /\ HaveNet6
  /\ \E k \in {0, 1, 64, 127} :
       LET r == Net6_Supernet(cur, k)
       IN  /\ Args("Net6.Supernet", cur.IP, cur.Mask, <<0, 0>>, BigZero, k, <<>>)
           /\ Results(NilIP, 0, <<>>, FALSE, r.err)
           /\ nets' = IF r.err = "nil" THEN <<r.net>> ELSE <<>>
           /\ UNCHANGED <<cur, depth>>

\* the offsets handed to Net6.Enumerate, as magnitudes: 0, 1, 2^63 + 1
Offsets6 == {Mag(0), Mag(1), <<128>> \o Zeros(6) \o <<1>>}

\* size is left in m, offset in big, the list in outs
CallNet6Enumerate ==
  /\ HaveNet6
  /\ \E size \in 0..2, offset \in Offsets6 :
       LET r == Net6_Enumerate(cur, Mag(size), offset)
       IN  /\ Args("Net6.Enumerate", cur.IP, cur.Mask, <<0, 0>>, BigNorm(FALSE, offset),
                   size, <<>>)
           /\ Results(NilIP, 0, r.list, FALSE, r.err)
           /\ UNCHANGED <<cur, nets, depth>>

\* the receiver is cur; the address stepped from is left in x
CallNet6NextIP ==
  /\ HaveNet6
  /\ \E a \in Step6Samples :
       LET r == Net6_NextIP(cur, a)
       IN  /\ Args("Net6.NextIP", a, cur.Mask, <<0, 0>>, BigZero, 0, <<>>)
           /\ Results(r.ip, 0, <<>>, FALSE, r.err)
           /\ UNCHANGED <<cur, nets, depth>>

CallNet6PreviousIP ==
  /\ HaveNet6
  /\ \E a \in Step6Samples :
       LET r == Net6_PreviousIP(cur, a)
       IN  /\ Args("Net6.PreviousIP", a, cur.Mask, <<0, 0>>, BigZero, 0, <<>>)
           /\ Results(r.ip, 0, <<>>, FALSE, r.err)
           /\ UNCHANGED <<cur, nets, depth>>

CallNet6NextNet ==
  /\ HaveNet6
  /\ \E k \in {64, 128} :
       LET r == Net6_NextNet(cur, k)
       IN  /\ Args("Net6.NextNet", cur.IP, cur.Mask, <<0, 0>>, BigZero, k, <<>>)
           /\ Results(NilIP, 0, <<>>, FALSE, r.err)
           /\ nets' = IF r.err = "nil" THEN <<r.net>> ELSE <<>>
           /\ UNCHANGED <<cur, depth>>

CallNet6PreviousNet ==
  /\ HaveNet6
  /\ \E k \in {64, 128} :
       LET r == Net6_PreviousNet(cur, k)
       IN  /\ Args("Net6.PreviousNet", cur.IP, cur.Mask, <<0, 0>>, BigZero, k, <<>>)
           /\ Results(NilIP, 0, <<>>, FALSE, r.err)
           /\ nets' = IF r.err = "nil" THEN <<r.net>> ELSE <<>>
           /\ UNCHANGED <<cur, depth>>

NextNet6 ==
  \/ CallNewNet6
  \/ CallNet6Mask
  \/ CallNet6IP
  \/ CallNet6FirstAddress
  \/ CallNet6LastAddress
  \/ CallNet6Wildcard
  \/ CallNet6Count
  \/ CallNet6ContainsNet
  \/ CallNet6Subnet
  \/ CallNet6Supernet
  \/ CallNet6Enumerate
  \/ CallNet6NextIP
  \/ CallNet6PreviousIP
  \/ CallNet6NextNet
  \/ CallNet6PreviousNet

SpecNet6 == Init /\ [][NextNet6]_vars

\* ------------------------------------------------------------------------
\* Properties
\* ------------------------------------------------------------------------

AllOnes(s) == \A i \in 1..Len(s) : s[i] = 255

AllZeros(s) == \A i \in 1..Len(s) : s[i] = 0

\* t is s + 1 as big-endian integers of the same length
IsSucc(s, t) ==
  /\ Len(t) = Len(s)
  /\ \E k \in 1..Len(s) :
       /\ \A i \in 1..(k - 1) : t[i] = s[i]
       /\ t[k] = s[k] + 1
       /\ \A i \in (k + 1)..Len(s) : s[i] = 255 /\ t[i] = 0

\* value(s) < value(t) for big-endian integers of the same length
ValLess(s, t) ==
  \E k \in 1..Len(s) :
    /\ \A i \in 1..(k - 1) : s[i] = t[i]
    /\ s[k] < t[k]

ValSign(s, t) == IF s = t THEN 0 ELSE IF ValLess(s, t) THEN -1 ELSE 1

\* the base-256 digits of a uint32 count
CountDigits(c) == <<c[1] \div 256, c[1] % 256, c[2] \div 256, c[2] % 256>>

\* C1: for an address of length 4 or 16, NextIP returns an address of the
\* same length whose big-endian value is one more, except that the all-ones
\* address is returned unchanged; PreviousIP returns the value one less,
\* except that the all-zeros address is returned unchanged.  Neither wraps.
C1_NextPreviousSaturate ==
  /\ fn = "NextIP" =>
       /\ Len(out) = Len(x)
       /\ IF AllOnes(x) THEN out = x ELSE IsSucc(x, out)
  /\ fn = "PreviousIP" =>
       /\ Len(out) = Len(x)
       /\ IF AllZeros(x) THEN out = x ELSE IsSucc(out, x)

C1_Witness ==
  /\ fn = "NextIP"
  /\ Len(x) = 16
  /\ x[15] = 255 /\ x[16] = 255 /\ x[14] = 0
  /\ out[14] = 1 /\ out[15] = 0 /\ out[16] = 0

\* C2: for a 4-byte address and a uint32 count, IncrementIP4By returns the
\* address of value min(value + count, 2^32 - 1) and DecrementIP4By the
\* address of value max(value - count, 0); the wrapped sum or difference is
\* never returned.
C2_IP4BySaturates ==
  /\ fn = "IncrementIP4By" =>
       LET sum == AddFrom(x, CountDigits(cnt), 4, 0)
       IN  out = IF Len(sum) > 4 THEN Fill(4, 255) ELSE sum
  /\ fn = "DecrementIP4By" =>
       out = IF ValLess(x, CountDigits(cnt)) THEN Zeros(4)
             ELSE SubFrom(x, CountDigits(cnt), 4, 0)

C2_Witness ==
  /\ fn = "IncrementIP4By"
  /\ x = <<255, 255, 255, 0>>
  /\ cnt = <<0, 256>>
  /\ out = <<255, 255, 255, 255>>

\* C3: for a 16-byte address and a non-negative big integer of any size,
\* IncrementIP6By returns the 16-byte address of value
\* min(value + n, 2^128 - 1) and DecrementIP6By the 16-byte address of value
\* max(value - n, 0).
C3_IP6BySaturates ==
  /\ fn = "IncrementIP6By" =>
       LET sum == MagAdd(Strip(x), big.abs)
       IN  out = IF Len(sum) > 16 THEN Fill(16, 255) ELSE PadTo(sum, 16)
  /\ fn = "DecrementIP6By" =>
       out = IF MagCmp(Strip(x), big.abs) <= 0 THEN Zeros(16)
             ELSE PadTo(MagSub(Strip(x), big.abs), 16)

\* value(a) + count does not exceed the all-ones address of a's family
NoSaturation(a, c) ==
  LET v == IF EffectiveVersion(a) = 4 THEN ForceIP4(a) ELSE a
  IN  Len(AddFrom(v, PadTo(CountDigits(c), Len(v)), Len(v), 0)) = Len(v)

\* C7: for an address a (4-byte, 16-byte or IPv4-mapped 16-byte) and a count
\* n that does not saturate, DecrementIPBy(IncrementIPBy(a, n), n) is a, the
\* same bytes with the same length.
C7_IncrementDecrementRoundTrip ==
  (fn = "DecrementIPBy" /\ NoSaturation(x, cnt)) => out = x

\* C8: for addresses of the same length CompareIPs returns -1, 0 or 1, the
\* sign of the difference of the big-endian values; it is reflexive-zero,
\* antisymmetric and transitive, and sorting with ByIP yields ascending
\* numeric order.
C8_CompareIsNumericOrder ==
  /\ (fn = "CompareIPs" /\ Len(x) = Len(y)) =>
       /\ ret \in {-1, 0, 1}
       /\ ret = ValSign(x, y)
       /\ CompareIPs(x, x) = 0
       /\ CompareIPs(y, x) = 0 - ret
       /\ \A c \in SortSamples :
            (Len(c) = Len(x) /\ ret <= 0 /\ CompareIPs(y, c) <= 0)
              => CompareIPs(x, c) <= 0
  /\ fn = "SortByIP" =>
       /\ Len(outs) = Len(xs)
       /\ \A a \in SortSamples :
            Cardinality({i \in 1..Len(xs) : xs[i] = a})
              = Cardinality({i \in 1..Len(outs) : outs[i] = a})
       /\ \A i \in 1..(Len(outs) - 1) : ~ValLess(outs[i + 1], outs[i])

C8_Witness ==
  /\ fn = "CompareIPs"
  /\ Len(x) = 16 /\ Len(y) = 16
  /\ x[16] > y[16]
  /\ ret = -1

\* the lowest and the highest address of a block: its base, and its base
\* with every host bit set
BlockLow(n) == n.IP

BlockHigh(n) == ByteSeq([i \in 1..Len(n.IP) |-> n.IP[i] + (255 - n.Mask[i])], Len(n.IP))

Returned == fn = "NewNetBetween" /\ err = "nil"

\* C4: whenever NewNetBetween(a, b) returns a netblock, every address of the
\* block, from its network address to its broadcast address, is strictly
\* greater than a and strictly less than b.
C4_BlockStrictlyBetween ==
  Returned =>
    /\ Len(BlockLow(cur)) = Len(x)
    /\ ValLess(x, BlockLow(cur))
    /\ ValLess(BlockHigh(cur), y)

IsBlock(n, ip, ones) == n.IP = ip /\ n.Mask = CIDRMask(ones, 32)

\* C5: NewNetBetween(a, b) sets exact if and only if the lowest address of
\* the returned block is NextIP(a) and its highest address is PreviousIP(b);
\* 192.168.0.255 and 192.168.2.0 give 192.168.1.0/24 with exact true,
\* 192.168.0.255 and 192.168.1.3 give 192.168.1.0/31 with exact false,
\* 192.168.1.0 and 192.168.1.3 give 192.168.1.1/32 with exact false.
C5_ExactIffCoversGap ==
  /\ Returned =>
       (exact <=> (BlockLow(cur) = NextIP(x) /\ BlockHigh(cur) = PreviousIP(y)))
  /\ (fn = "NewNetBetween" /\ x = <<192, 168, 0, 255>> /\ y = <<192, 168, 2, 0>>) =>
       (err = "nil" /\ IsBlock(cur, <<192, 168, 1, 0>>, 24) /\ exact)
  /\ (fn = "NewNetBetween" /\ x = <<192, 168, 0, 255>> /\ y = <<192, 168, 1, 3>>) =>
       (err = "nil" /\ IsBlock(cur, <<192, 168, 1, 0>>, 31) /\ ~exact)
  /\ (fn = "NewNetBetween" /\ x = <<192, 168, 1, 0>> /\ y = <<192, 168, 1, 3>>) =>
       (err = "nil" /\ IsBlock(cur, <<192, 168, 1, 1>>, 32) /\ ~exact)

\* the pairs for which nothing lies between a and b: a >= b, addresses of
\* different families, or b = a + 1
NothingBetween(a, b) ==
  \/ Len(a) # Len(b)
  \/ EffectiveVersion(a) # EffectiveVersion(b)
  \/ ~ValLess(a, b)
  \/ IsSucc(a, b)

\* C6: NewNetBetween(a, b) returns ErrNoValidRange and no block exactly when
\* a >= b, or a and b are of different families, or b = a + 1; for every
\* other pair (both 4-byte, both 16-byte, or both IPv4-mapped 16-byte) it
\* returns a block and a nil error; it returns no other error.
C6_ErrNoValidRangeExactly ==
  fn = "NewNetBetween" =>
    IF NothingBetween(x, y)
      THEN err = "ErrNoValidRange" /\ cur = NoNet
      ELSE err = "nil" /\ cur # NoNet

\* the bit width of the family NewNet4, NewNet6 or NewNet constructs for
Width(f, ip) ==
  IF f = "NewNet4" THEN 32
  ELSE IF f = "NewNet6" THEN 128
  ELSE IF EffectiveVersion(ip) = 4 THEN 32 ELSE 128

\* C9: NewNet4(ip, masklen) with masklen > 32, NewNet6(ip, masklen) with
\* masklen > 128, and NewNet dispatching to either, return a non-nil error
\* and no usable netblock.
C9_LongPrefixIsError ==
  (fn \in {"NewNet4", "NewNet6", "NewNet"} /\ m > Width(fn, x)) =>
    (err # "nil" /\ cur = NoNet)

\* a 4-byte base, a mask of 0..32 leading ones, and no base bit set where
\* the wildcard has one
WellFormedNet4(n) ==
  /\ LenB(n.IP) = 4
  /\ \E k \in 0..32 : n.Mask = CIDRMask(k, 32)
  /\ \A i \in 1..4 : And8(n.IP[i], 255 - n.Mask[i]) = 0
  /\ \A i \in 1..4 : n.IP[i] + (255 - n.Mask[i]) <= 255

\* C10: every Net4 returned without error by NewNet4 or ParseCIDR, and every
\* Net4 reached from it by Subnet, Supernet, NextNet and PreviousNet calls
\* (prefix arguments 0..32) that return no error, has a 4-byte base address,
\* a valid mask of length 0..32, and base AND wildcard = 0, so that the
\* byte-wise sum base + wildcard never overflows a byte.
C10_Net4WellFormed ==
  (fn \in {"NewNet4", "ParseCIDR", "Subnet", "Supernet", "NextNet", "PreviousNet"}
     /\ err = "nil" /\ ~IsNet6(cur)) =>
    /\ WellFormedNet4(cur)
    /\ \A i \in 1..Len(nets) : WellFormedNet4(nets[i])

\* the prefix length of a well-formed Net4
PrefixOf(n) == CHOOSE k \in 0..32 : n.Mask = CIDRMask(k, 32)

\* the bitwise OR of a base address and the complement of a mask
OrWildcard(ip, mask) ==
  ByteSeq([i \in 1..Len(ip) |->
             ip[i] + (255 - mask[i]) - And8(ip[i], 255 - mask[i])], Len(ip))

\* lo <= s <= hi as big-endian integers
InRange(s, lo, hi) == Len(s) = Len(lo) /\ ~ValLess(s, lo) /\ ~ValLess(hi, s)

\* C11: for a Net4 block with network address N, prefix p and wildcard W,
\* NetworkAddress() and IP() are N and BroadcastAddress() is N OR W; for
\* p <= 30 FirstAddress() is N + 1 and LastAddress() is the broadcast
\* address - 1, for p = 31 and p = 32 they are N and the broadcast address;
\* each of these addresses lies in [N, N OR W].
C11_BlockAddresses ==
  WellFormedNet4(cur) =>
    LET N == cur.IP
        hi == OrWildcard(cur.IP, cur.Mask)
    IN  /\ fn \in {"NetworkAddress", "IP"} => (err = "nil" /\ out = N)
        /\ fn = "BroadcastAddress" => (err = "nil" /\ out = hi)
        /\ fn = "FirstAddress" =>
             /\ err = "nil"
             /\ IF PrefixOf(cur) <= 30 THEN IsSucc(N, out) ELSE out = N
        /\ fn = "LastAddress" =>
             /\ err = "nil"
             /\ IF PrefixOf(cur) <= 30 THEN IsSucc(out, hi) ELSE out = hi
        /\ fn \in {"NetworkAddress", "IP", "BroadcastAddress", "FirstAddress", "LastAddress"}
             => InRange(out, N, hi)

C11_Witness ==
  /\ fn = "LastAddress"
  /\ cur.IP = <<192, 168, 1, 0>>
  /\ cur.Mask = <<255, 255, 255, 192>>
  /\ out = <<192, 168, 1, 62>>

\* 2^(32 - p) - 2 as a uint32, for 0 <= p <= 30
UsableCount(p) ==
  IF p <= 16 THEN <<Pow2(16 - p) - 1, 65534>> ELSE <<0, Pow2(32 - p) - 2>>

\* C12: Count() is 0 for a /31, 1 for a /32 and exactly 2^(32-p) - 2 as a
\* uint32 for every prefix p in 0..30, 4294967294 for /0 included.
C12_CountIsUsableHosts ==
  (fn = "Count" /\ WellFormedNet4(cur)) =>
    cnt = IF PrefixOf(cur) = 31 THEN <<0, 0>>
          ELSE IF PrefixOf(cur) = 32 THEN <<0, 1>>
          ELSE UsableCount(PrefixOf(cur))

\* the addresses of a list are consecutive and ascending
Consecutive(l) == \A i \in 1..(Len(l) - 1) : IsSucc(l[i], l[i + 1])

Min(a, b) == IF a < b THEN a ELSE b

\* the elements of l from index offset (counted from 0), size of them at
\* most, all of them when size = 0
Slice(l, size, offset) ==
  IF offset >= Len(l) THEN <<>>
  ELSE SubSeq(l, offset + 1,
              offset + (IF size = 0 THEN Len(l) - offset ELSE Min(size, Len(l) - offset)))

\* C14: for size >= 0 and offset >= 0, Enumerate(size, offset) returns,
\* without a run-time panic, the elements of Enumerate(0, 0) from index
\* offset, min(size, L - offset) of them, or all the remaining ones when
\* size = 0 (L being the length of Enumerate(0, 0)); the list is empty when
\* offset >= L and has at most size elements when size > 0.
C14_EnumerateWindow ==
  (fn = "Enumerate" /\ WellFormedNet4(cur)) =>
    \A conv \in FloatToUint32OutOfRange :
      /\ err = "nil"
      /\ outs = Slice(Net4_Enumerate(cur, 0, 0, conv).list, m, ret)
      /\ m > 0 => Len(outs) <= m

\* the 4-byte value of ip lies in the block n
Member(n, ip) ==
  To4(ip) # NilIP /\ InRange(To4(ip), n.IP, OrWildcard(n.IP, n.Mask))

\* C15: for a Net4 block n and an address ip, n.NextIP(ip) and
\* n.PreviousIP(ip) return the empty address and ErrAddressOutOfRange when
\* ip is not a member of n; NextIP returns ip + 1 and ErrBroadcastAddress
\* when ip is a member and ip + 1 is the broadcast address; PreviousIP
\* returns ip - 1 and ErrNetworkAddress when ip is a member and ip - 1 is the
\* network address; every other step that stays inside the block returns
\* ip + 1 (ip - 1) and a nil error.
C15_StepInsideBlock ==
  (fn \in {"Net4.NextIP", "Net4.PreviousIP"} /\ WellFormedNet4(cur)) =>
    LET N == cur.IP
        hi == OrWildcard(cur.IP, cur.Mask)
        v == To4(x)
    IN  IF ~Member(cur, x) THEN out = <<>> /\ err = "ErrAddressOutOfRange"
        ELSE /\ (fn = "Net4.NextIP" /\ IsSucc(v, hi)) =>
                  (To4(out) = hi /\ err = "ErrBroadcastAddress")
             /\ (fn = "Net4.NextIP" /\ ValLess(v, hi) /\ ~IsSucc(v, hi)) =>
                  (IsSucc(v, To4(out)) /\ err = "nil")
             /\ (fn = "Net4.PreviousIP" /\ IsSucc(N, v)) =>
                  (To4(out) = N /\ err = "ErrNetworkAddress")
             /\ (fn = "Net4.PreviousIP" /\ ValLess(N, v) /\ ~IsSucc(N, v)) =>
                  (IsSucc(To4(out), v) /\ err = "nil")

C15_Witness ==
  /\ fn = "Net4.NextIP"
  /\ cur.IP = <<192, 168, 1, 0>>
  /\ cur.Mask = <<255, 255, 255, 192>>
  /\ x = <<192, 168, 1, 62>>
  /\ out = <<192, 168, 1, 63>>
  /\ err = "ErrBroadcastAddress"

\* C16: n.NextIP applied to the broadcast address of n and n.PreviousIP
\* applied to the network address of n return the empty address and
\* ErrAddressAtEndOfRange, for every block: also one whose broadcast address
\* is 255.255.255.255 or whose network address is 0.0.0.0, and a /32.
C16_StepOutOfBlock ==
  /\ (fn = "Net4.NextIP" /\ WellFormedNet4(cur)
        /\ To4(x) = OrWildcard(cur.IP, cur.Mask)) =>
       (out = <<>> /\ err = "ErrAddressAtEndOfRange")
  /\ (fn = "Net4.PreviousIP" /\ WellFormedNet4(cur) /\ To4(x) = cur.IP) =>
       (out = <<>> /\ err = "ErrAddressAtEndOfRange")

\* the block Subnet or Supernet was called on
Receiver == [IP |-> x, Mask |-> y]

\* the block of prefix k that starts at ip
Block4(ip, k) == [IP |-> ip, Mask |-> CIDRMask(k, 32)]

SameBlock(n, b) == n.IP = b.IP /\ n.Mask = b.Mask

\* C17: for a Net4 block of prefix p, 0 <= p < 32, Subnet(0) succeeds and
\* returns exactly two blocks of prefix p + 1, the lower and the upper half
\* of the block; 192.168.1.0/24 gives 192.168.1.0/25 and 192.168.1.128/25.
C17_SubnetZeroHalves ==
  (fn = "Subnet" /\ m = 0 /\ WellFormedNet4(Receiver) /\ PrefixOf(Receiver) < 32) =>
    /\ err = "nil"
    /\ Len(nets) = 2
    /\ SameBlock(nets[1], Block4(x, PrefixOf(Receiver) + 1))
    /\ nets[2].Mask = CIDRMask(PrefixOf(Receiver) + 1, 32)
    /\ IsSucc(OrWildcard(nets[1].IP, nets[1].Mask), nets[2].IP)
    /\ OrWildcard(nets[2].IP, nets[2].Mask) = OrWildcard(x, y)

\* C18: for a Net4 block of prefix p and m with p <= m <= 32, m # 0,
\* Subnet(m) returns 2^(m - p) blocks of prefix m in ascending order: the
\* first starts at the network address of the block, each following one at
\* the broadcast address of the one before + 1, and the last ends at the
\* broadcast address of the block; for 0 < m < p it returns
\* ErrBadMaskLength and no blocks.
C18_SubnetCoversBlock ==
  (fn = "Subnet" /\ m # 0 /\ WellFormedNet4(Receiver)) =>
    IF m < PrefixOf(Receiver) THEN err = "ErrBadMaskLength" /\ nets = <<>>
    ELSE /\ err = "nil"
         /\ Len(nets) = Pow2(m - PrefixOf(Receiver))
         /\ \A i \in 1..Len(nets) : nets[i].Mask = CIDRMask(m, 32)
         /\ nets[1].IP = x
         /\ \A i \in 1..(Len(nets) - 1) :
              IsSucc(OrWildcard(nets[i].IP, nets[i].Mask), nets[i + 1].IP)
         /\ OrWildcard(nets[Len(nets)].IP, nets[Len(nets)].Mask) = OrWildcard(x, y)

C18_Witness ==
  /\ fn = "Subnet"
  /\ x = <<192, 168, 1, 60>>
  /\ y = <<255, 255, 255, 252>>
  /\ m = 32
  /\ Len(nets) = 4
  /\ nets[4].IP = <<192, 168, 1, 63>>

\* C19: for a Net4 block n of prefix p >= 1, Supernet(m) with m > p returns
\* ErrBadMaskLength; Supernet(m) with 0 < m <= p returns the block of prefix
\* m whose network address is the network address of n masked to m bits,
\* which contains n; Supernet(0) returns that block for m = p - 1.
C19_SupernetContains ==
  (fn = "Supernet" /\ WellFormedNet4(Receiver) /\ PrefixOf(Receiver) >= 1) =>
    IF m > PrefixOf(Receiver) THEN err = "ErrBadMaskLength"
    ELSE /\ err = "nil"
         /\ cur.Mask = CIDRMask(IF m = 0 THEN PrefixOf(Receiver) - 1 ELSE m, 32)
         /\ WellFormedNet4(cur)
         /\ Member(cur, x)
         /\ Member(cur, OrWildcard(x, y))

C19_Witness ==
  /\ fn = "Supernet"
  /\ x = <<192, 168, 1, 0>>
  /\ y = <<255, 255, 255, 0>>
  /\ m = 0
  /\ cur.IP = <<192, 168, 0, 0>>
  /\ cur.Mask = <<255, 255, 254, 0>>

\* C20: for a Net4 block n of prefix p, 0 <= p <= 32, and m with
\* p <= m <= 32, every block c that n.Subnet(m) returns satisfies
\* c.Supernet(p) = n: the same network address and the same prefix length.
C20_SubnetSupernetRoundTrip ==
  (fn = "SupernetOfChild" /\ WellFormedNet4(Receiver)) =>
    (err = "nil" /\ cur.IP = x /\ cur.Mask = y)

\* the blocks a and b have no address in common
Disjoint(a, b) ==
  \/ ValLess(OrWildcard(a.IP, a.Mask), b.IP)
  \/ ValLess(OrWildcard(b.IP, b.Mask), a.IP)

\* C21: for a Net4 block n of prefix p and q with p <= q <= 32, n.NextNet(q)
\* is the block of prefix q whose network address is the broadcast address
\* of n + 1 and n.PreviousNet(q) is the block of prefix q whose broadcast
\* address is the network address of n - 1; the block returned shares no
\* address with n, also when n ends at 255.255.255.255 or starts at 0.0.0.0.
C21_AdjacentNets ==
  (fn \in {"NextNet", "PreviousNet"} /\ WellFormedNet4(Receiver)
     /\ PrefixOf(Receiver) <= m) =>
    /\ err = "nil"
    /\ cur.Mask = CIDRMask(m, 32)
    /\ fn = "NextNet" => IsSucc(OrWildcard(x, y), cur.IP)
    /\ fn = "PreviousNet" => IsSucc(OrWildcard(cur.IP, cur.Mask), x)
    /\ Disjoint(cur, Receiver)

\* every address of the block b is an address of the block a
Encloses(a, b) ==
  /\ ~ValLess(b.IP, a.IP)
  /\ ~ValLess(OrWildcard(a.IP, a.Mask), OrWildcard(b.IP, b.Mask))

\* C22: for Net4 blocks a and b, a.ContainsNet(b) is true exactly when
\* prefix(a) <= prefix(b) and the base address of b is a member of a, which
\* is exactly when every address of b is an address of a; a block contains
\* itself and never a strictly larger block that encloses it.
C22_ContainsNetIsInclusion ==
  (fn = "ContainsNet" /\ WellFormedNet4(cur) /\ WellFormedNet4(Receiver)) =>
    /\ err = "nil"
    /\ exact <=> (PrefixOf(cur) <= PrefixOf(Receiver) /\ Member(cur, x))
    /\ exact <=> Encloses(cur, Receiver)
    /\ SameBlock(cur, Receiver) => exact
    /\ (Encloses(Receiver, cur) /\ ~SameBlock(cur, Receiver)) => ~exact

C22_Witness ==
  /\ fn = "ContainsNet"
  /\ cur.IP = <<192, 168, 1, 0>> /\ cur.Mask = <<255, 255, 255, 0>>
  /\ x = <<192, 168, 1, 0>> /\ y = <<255, 255, 255, 192>>
  /\ exact

\* C23: overwriting the bytes of an address returned by IP, NetworkAddress,
\* FirstAddress, LastAddress, BroadcastAddress, or of an element of the list
\* Enumerate returned, never changes what the block returns afterwards from
\* any accessor, for every prefix length, /31 and /32 included.
C23_ReturnedAddressesAreCopies ==
  [][(fn' = "Overwrite" /\ WellFormedNet4(cur)) =>
       /\ Net4_IP(cur') = Net4_IP(cur)
       /\ Net4_NetworkAddress(cur') = Net4_NetworkAddress(cur)
       /\ Net4_FirstAddress(cur') = Net4_FirstAddress(cur)
       /\ Net4_LastAddress(cur') = Net4_LastAddress(cur)
       /\ Net4_BroadcastAddress(cur') = Net4_BroadcastAddress(cur)]_vars

\* the address the method steps to, for the call the state holds
Stepped6 ==
  IF fn = "Net6.NextIP" THEN nextIPWithNetworkBytes(cur, x)
  ELSE previousIPWithNetworkBytes(cur, x)

\* C25: Net6.NextIP and Net6.PreviousIP return an empty address with
\* ErrAddressOutOfRange when the address handed in is not a member of the
\* block, and an empty address with ErrAddressAtEndOfRange, in both
\* directions, when it is a member and the stepped address is outside
C25_Net6StepErrors ==
  fn \in {"Net6.NextIP", "Net6.PreviousIP"} =>
    /\ ~Net6_Contains(cur, x) => out = <<>> /\ err = "ErrAddressOutOfRange"
    /\ (Net6_Contains(cur, x) /\ ~Net6_Contains(cur, Stepped6)) =>
         out = <<>> /\ err = "ErrAddressAtEndOfRange"

\* the first k bytes of s plus one (dir = 1) or minus one (dir = -1) as a
\* big-endian integer, kept as they are when the integer is at its limit
StepHead(s, k, dir) ==
  LET h == SubSeq(s, 1, k)
      r == IF dir = 1 THEN NextIPLoop(h, k) ELSE PreviousIPLoop(h, k)
  IN  IF r[1] THEN r[2] ELSE h

\* b is a stepped within its first k bytes, the other bytes being kept
SteppedWithin(a, b, k, dir) ==
  /\ Len(b) = Len(a)
  /\ SubSeq(b, 1, k) = StepHead(a, k, dir)
  /\ SubSeq(b, k + 1, Len(b)) = SubSeq(a, k + 1, Len(a))

\* C28: for a Net6 block with 8 network bytes, an address returned by NextIP
\* or PreviousIP, and each address of an Enumerate list after the first, is
\* the address it was stepped from with the leading 64 bits plus or minus
\* one and bytes 8 to 15 left as they were
C28_StepKeepsHostBytes ==
  /\ (fn = "Net6.NextIP" /\ err = "nil") => SteppedWithin(x, out, cur.netbytes, 1)
  /\ (fn = "Net6.PreviousIP" /\ err = "nil") => SteppedWithin(x, out, cur.netbytes, -1)
  /\ (fn = "Net6.Enumerate" /\ err = "nil") =>
       \A i \in 1..(Len(outs) - 1) : SteppedWithin(outs[i], outs[i + 1], cur.netbytes, 1)

\* the prefix length of a Net6 block
Prefix6(n) == MaskSize(n.Mask)[1]

\* 2^e as a magnitude
MagPow2(e) == <<Pow2(e % 8)>> \o Zeros(e \div 8)

\* C30: every Net6 accessor returns: Mask() and IP() return the stored mask
\* and base address, and FirstAddress, LastAddress, Count, Wildcard,
\* ContainsNet, Subnet and Supernet, which call them, return as well
C30_Net6AccessorsReturn ==
  /\ fn = "Net6.Mask" => (err = "nil" /\ out = cur.Mask)
  /\ fn = "Net6.IP" => (err = "nil" /\ out = cur.IP)
  /\ fn \in {"Net6.FirstAddress", "Net6.LastAddress", "Net6.Count", "Net6.Wildcard",
             "Net6.ContainsNet", "Net6.Subnet", "Net6.Supernet"} =>
       err # "stack overflow"

\* C24: Net6.Count returns 2^(128 - p) for a block of prefix length p in
\* 0..126, 2 for a /127 block and 1 for a /128 block
C24_Net6Count ==
  fn = "Net6.Count" =>
    /\ err = "nil"
    /\ big = BigNorm(FALSE, MagPow2(128 - Prefix6(cur)))

\* the bound of Enumerate the claim gives: Count() for a prefix length of
\* 65 or more, 2^64 - 1 otherwise
EnumerateBound6(n) ==
  IF Prefix6(n) >= 65 THEN MagPow2(128 - Prefix6(n)) ELSE MaxUint

\* the number of addresses Enumerate(size, offset) returns under a bound
EnumerateLen6(bound, size, offset) ==
  IF MagCmp(offset, bound) > 0 THEN <<>>
  ELSE IF size = <<>> \/ MagCmp(size, MagSub(bound, offset)) > 0 THEN MagSub(bound, offset)
  ELSE size

\* C29: Net6.Enumerate(size, offset) bounds its result by Count() when the
\* count fits 64 bits (prefix length 65 or more, 2^63 for a /65 block) and
\* by 2^64 - 1 otherwise: it returns no address for an offset above the
\* bound and at most bound - offset addresses
C29_Net6EnumerateBound ==
  fn = "Net6.Enumerate" =>
    /\ err # "stack overflow"
    /\ err = "nil" =>
         Mag(Len(outs)) = EnumerateLen6(EnumerateBound6(cur), Mag(m), big.abs)

\* the call the state holds is CompareIPs(a, b), a of 4 bytes, b of 16 bytes
MixedCompare == fn = "CompareIPs" /\ Len(x) = 4 /\ Len(y) = 16

\* C27: for a 4-byte address a and a 16-byte address b, CompareIPs(a, b) is
\* the byte-for-byte comparison of a's IPv4-mapped form (ten zero bytes, two
\* bytes 255, then the four bytes of a) with b
C27_MixedCompareMapped ==
  MixedCompare => ret = BytesCompare(v4InV6Prefix \o x, y)

\* C27 as stated: CompareIPs(a, b) is the comparison of twelve zero bytes
\* followed by the four bytes of a with b
C27_MixedCompareZeroPrefix ==
  MixedCompare => ret = BytesCompare(Zeros(12) \o x, y)

\* a 4-byte address is compared with a 16-byte address that starts with
\* twelve zero bytes and sorts after it
C27_Witness ==
  /\ MixedCompare
  /\ SubSeq(y, 1, 12) = Zeros(12)
  /\ BytesCompare(SubSeq(y, 13, 16), x) = 1
  /\ ret = 1

\* the block of prefix j whose lowest address is ip exists (ip is aligned to
\* the mask) and its highest address is at or before hi
AnchoredFits(ip, j, hi) ==
  /\ IP_Mask(ip, CIDRMask(j, 32)) = ip
  /\ ~ValLess(hi, OrWildcard(ip, CIDRMask(j, 32)))

\* C26: whenever NewNetBetween(a, b) returns a block of prefix length i, the
\* lowest address of the block is NextIP(a), and no mask-aligned block of a
\* smaller prefix length has NextIP(a) as its lowest address and its highest
\* address at or before PreviousIP(b)
C26_LargestAnchoredBlock ==
  Returned =>
    /\ BlockLow(cur) = NextIP(x)
    /\ \A j \in 0..(PrefixOf(cur) - 1) : ~AnchoredFits(NextIP(x), j, PreviousIP(y))

====
